---------------------------- MODULE Spec2Model ----------------------------
(***************************************************************************)
(* A model of the simulation layer of the New Year 2026 platformer:        *)
(* Game (src/src/game.ts, first class), Player (src/src/main.ts, second    *)
(* class), the entity rules (src/src/entities.ts), the input handler       *)
(* (src/src/input.ts) and the level decoder (src/unnamed/part_003).        *)
(*                                                                         *)
(* Numbers.  The program computes in floating point; the model computes in *)
(* exact fixed point.  Time is counted in ticks of 1/100 s, a velocity v   *)
(* px/s is stored as v * VelocityScale and a position p px as p * U, so    *)
(* that  position += velocity * deltaTime  is exact for every deltaTime    *)
(* that is a whole number of ticks.                                        *)
(*                                                                         *)
(* Glyphs.  The block glyphs of the level text are written in ASCII:       *)
(* "#" is U+2593 (normal platform), "o" is U+25CB (bouncy platform) and    *)
(* "x" is U+2573 (breakable platform).                                     *)
(***************************************************************************)
EXTENDS Integers, Sequences, FiniteSets, TLC

TicksPerSecond == 10 * 10

VelocityScale == 10 * 10

U == TicksPerSecond * VelocityScale

Px(p) == p * U

Vel(v) == v * VelocityScale

Abs(n) == IF n < 0 THEN 0 - n ELSE n

Max(a, b) == IF a > b THEN a ELSE b

Min(a, b) == IF a < b THEN a ELSE b

\* Math.floor(a / b) for b > 0 (\div rounds towards minus infinity)
Floor(a, b) == a \div b

\* a * n / d rounded towards zero: the model's reading of a float product
\* that is not a whole number of position units
MulDivTrunc(a, n, d) == IF a >= 0 THEN (a * n) \div d ELSE 0 - (((0 - a) * n) \div d)

-----------------------------------------------------------------------------
(* Program constants *)

TILE_SIZE == 40

PLAYER_WIDTH == 32

PLAYER_HEIGHT == 40

GRAVITY == 1100

JUMP_FORCE == 520

BOUNCE_FORCE == 650

MOVE_SPEED == 340

MAX_FALL_SPEED == 800

ACCELERATION == 2200

FRICTION == 1500

\* AIR_CONTROL = 0.75, in percent
AIR_CONTROL_PCT == 75

\* INVINCIBILITY_DURATION = 2 seconds
INVINCIBILITY_DURATION == 2

\* HIT_FLASH_DURATION = 0.15 seconds, in ticks
HIT_FLASH_DURATION_TICKS == 15

CAMERA_SMOOTHING == 5

\* CAMERA_OFFSET_Y = 0.4, in percent
CAMERA_OFFSET_Y_PCT == 40

\* the frame driver's clamp Math.min(..., 0.1), in ticks
MAX_DELTA_TICKS == 10

\* Cannon fireRate = 1.5 seconds, in ticks
FIRE_RATE_TICKS == 150

\* stands for the value `undefined` of an optional numeric field
UNDEFINED == 0 - (2000 * U)

-----------------------------------------------------------------------------
(* Geometry *)

\* entities.ts intersects(a, b): strict overlap of two rectangles
intersects(a, b) ==
    /\ a.x < b.x + b.width
    /\ a.x + a.width > b.x
    /\ a.y < b.y + b.height
    /\ a.y + a.height > b.y

-----------------------------------------------------------------------------
(* Level decoder: parseLevel of src/unnamed/part_003 *)

\* types.ts TILE_TYPES, the ASCII glyphs and the three block glyphs
TILE_TYPES ==
    [g \in {"#", "~", "o", "x", "P", "W", "J", "S", ">", "<", "*", "C", "U", " ", "."} |->
        CASE g = "#" -> "platform-normal"
          [] g = "~" -> "platform-moving"
          [] g = "o" -> "platform-bouncy"
          [] g = "x" -> "platform-breakable"
          [] g = "P" -> "player-start"
          [] g = "W" -> "enemy-walker"
          [] g = "J" -> "enemy-jumper"
          [] g = "S" -> "enemy-static"
          [] g = ">" -> "cannon-right"
          [] g = "<" -> "cannon-left"
          [] g = "*" -> "collectible-star"
          [] g = "C" -> "collectible-coin"
          [] g = "U" -> "collectible-powerup"
          [] OTHER   -> "empty"]

\* the glyphs the level legend of part_003 adds to the table: O = portal (goal),
\* F = flyer
LEGEND_TILE_TYPES ==
    [g \in {"O", "F"} |-> IF g = "O" THEN "portal" ELSE "enemy-flyer"]

\* TILE_TYPES[char]: the tile kind of a glyph, "undefined" for an unmapped glyph
TileTypeOf(char) ==
    IF char \in DOMAIN TILE_TYPES THEN TILE_TYPES[char]
    ELSE IF char \in DOMAIN LEGEND_TILE_TYPES THEN LEGEND_TILE_TYPES[char]
    ELSE "undefined"

\* tileType.startsWith('platform-') and tileType.replace('platform-', '')
PlatformTypeOf ==
    [t \in {"platform-normal", "platform-moving", "platform-bouncy", "platform-breakable"} |->
        CASE t = "platform-normal" -> "normal"
          [] t = "platform-moving" -> "moving"
          [] t = "platform-bouncy" -> "bouncy"
          [] OTHER -> "breakable"]

\* tileType.startsWith('enemy-') and tileType.replace('enemy-', '')
EnemyTypeOf ==
    [t \in {"enemy-walker", "enemy-jumper", "enemy-static", "enemy-flyer"} |->
        CASE t = "enemy-walker" -> "walker"
          [] t = "enemy-jumper" -> "jumper"
          [] t = "enemy-static" -> "static"
          [] OTHER -> "flyer"]

\* tileType.startsWith('collectible-') and tileType.replace('collectible-', '')
CollectibleTypeOf ==
    [t \in {"collectible-star", "collectible-coin", "collectible-powerup"} |->
        CASE t = "collectible-star" -> "star"
          [] t = "collectible-coin" -> "coin"
          [] OTHER -> "powerup"]

\* portal = null
NullPortal == [isNull |-> TRUE, x |-> 0, y |-> 0, width |-> 0, height |-> 0]

\* the enemy pushed for an enemy glyph at (gameX, gameY)
NewEnemy(enemyType, gameX, gameY) ==
    [x |-> gameX, y |-> gameY,
     width |-> (TILE_SIZE * U * 8) \div 10, height |-> (TILE_SIZE * U * 8) \div 10,
     velocityX |-> CASE enemyType = "walker" -> Vel(120)
                     [] enemyType = "flyer" -> Vel(100)
                     [] OTHER -> 0,
     velocityY |-> 0,
     type |-> enemyType,
     direction |-> 1,
     patrolRange |-> IF enemyType = "walker" THEN Px(TILE_SIZE * 4) ELSE Px(TILE_SIZE * 3),
     startX |-> gameX, startY |-> gameY,
     alive |-> TRUE]

\* NewCollectible with 80% of the tile, centred
NewCollectible_EightyPercent(collectibleType, gameX, gameY) ==
    [x |-> gameX + (TILE_SIZE * U) \div 10, y |-> gameY + (TILE_SIZE * U) \div 10,
     width |-> (TILE_SIZE * U * 8) \div 10, height |-> (TILE_SIZE * U * 8) \div 10,
     type |-> collectibleType, collected |-> FALSE]

\* the collectible pushed for a collectible glyph at (gameX, gameY)
NewCollectible(collectibleType, gameX, gameY) ==
    [x |-> gameX + (TILE_SIZE * U) \div 4, y |-> gameY + (TILE_SIZE * U) \div 4,
     width |-> (TILE_SIZE * U) \div 2, height |-> (TILE_SIZE * U) \div 2,
     type |-> collectibleType, collected |-> FALSE]

\* the cannon pushed for a cannon glyph at (gameX, gameY).  The program keeps
\* lastFired (0 when decoded) and reads the clock; their only use is the
\* comparison (time - lastFired) / 1000 >= fireRate, so the model keeps
\* sinceFired = time - lastFired, saturated at fireRate.  A level is decoded
\* when the page is at least fireRate old.
NewCannon(tileType, gameX, gameY) ==
    [x |-> gameX, y |-> gameY, width |-> Px(TILE_SIZE), height |-> Px(TILE_SIZE),
     direction |-> IF tileType = "cannon-right" THEN 1 ELSE 0 - 1,
     fireRate |-> FIRE_RATE_TICKS,
     sinceFired |-> FIRE_RATE_TICKS]

\* the portal set for a portal glyph at (gameX, gameY)
NewPortal(gameX, gameY) ==
    [isNull |-> FALSE, x |-> gameX, y |-> gameY,
     width |-> Px(TILE_SIZE * 2), height |-> Px(TILE_SIZE * 2)]

\* ParseChar extending the last run whatever its platform kind
ParseChar_MergesKinds(acc, char, row, col, rowCount) ==
    LET gameX == Px(col * TILE_SIZE)
        gameY == Px((rowCount - 1 - row) * TILE_SIZE)
        tileType == TileTypeOf(char)
        runs == acc.platformRuns
        hasLast == Len(runs) > 0 /\ runs[Len(runs)].row = row
        lastRun == runs[Len(runs)]
    IN  CASE tileType = "player-start" ->
               [acc EXCEPT !.playerStart =
                   [x |-> gameX + Px(TILE_SIZE) \div 2, y |-> gameY + Px(TILE_SIZE) \div 2]]
          [] tileType \in DOMAIN PlatformTypeOf ->
               IF hasLast /\ lastRun.endCol = col - 1
               THEN [acc EXCEPT !.platformRuns[Len(runs)].endCol = col]
               ELSE [acc EXCEPT !.platformRuns = Append(runs,
                        [row |-> row, startCol |-> col, endCol |-> col,
                         type |-> PlatformTypeOf[tileType]])]
          [] tileType \in DOMAIN EnemyTypeOf ->
               [acc EXCEPT !.enemies = Append(@, NewEnemy(EnemyTypeOf[tileType], gameX, gameY))]
          [] tileType \in DOMAIN CollectibleTypeOf ->
               [acc EXCEPT !.collectibles =
                   Append(@, NewCollectible(CollectibleTypeOf[tileType], gameX, gameY))]
          [] tileType \in {"cannon-right", "cannon-left"} ->
               [acc EXCEPT !.cannons = Append(@, NewCannon(tileType, gameX, gameY))]
          [] tileType = "portal" ->
               [acc EXCEPT !.portal = NewPortal(gameX, gameY)]
          [] OTHER -> acc

\* the body of the loop over the characters of a line: one glyph at (row, col)
ParseChar(acc, char, row, col, rowCount) ==
    LET gameX == Px(col * TILE_SIZE)
        gameY == Px((rowCount - 1 - row) * TILE_SIZE)
        tileType == TileTypeOf(char)
        runs == acc.platformRuns
        hasLast == Len(runs) > 0 /\ runs[Len(runs)].row = row
        lastRun == runs[Len(runs)]
    IN  CASE tileType = "player-start" ->
               [acc EXCEPT !.playerStart =
                   [x |-> gameX + Px(TILE_SIZE) \div 2, y |-> gameY + Px(TILE_SIZE) \div 2]]
          [] tileType \in DOMAIN PlatformTypeOf ->
               IF hasLast /\ lastRun.endCol = col - 1 /\ lastRun.type = PlatformTypeOf[tileType]
               THEN [acc EXCEPT !.platformRuns[Len(runs)].endCol = col]
               ELSE [acc EXCEPT !.platformRuns = Append(runs,
                        [row |-> row, startCol |-> col, endCol |-> col,
                         type |-> PlatformTypeOf[tileType]])]
          [] tileType \in DOMAIN EnemyTypeOf ->
               [acc EXCEPT !.enemies = Append(@, NewEnemy(EnemyTypeOf[tileType], gameX, gameY))]
          [] tileType \in DOMAIN CollectibleTypeOf ->
               [acc EXCEPT !.collectibles =
                   Append(@, NewCollectible(CollectibleTypeOf[tileType], gameX, gameY))]
          [] tileType \in {"cannon-right", "cannon-left"} ->
               [acc EXCEPT !.cannons = Append(@, NewCannon(tileType, gameX, gameY))]
          [] tileType = "portal" ->
               [acc EXCEPT !.portal = NewPortal(gameX, gameY)]
          [] OTHER -> acc

RECURSIVE ParseLine(_, _, _, _, _)
\* for (const char of chars) { ...; col++ } from column col on; the singleton
\* set holds the accumulator after this glyph, computed once
ParseLine(acc, chars, row, col, rowCount) ==
    IF col >= Len(chars) THEN acc
    ELSE LET next == {ParseChar(acc, chars[col + 1], row, col, rowCount)}
         IN  CHOOSE done \in {ParseLine(acc1, chars, row, col + 1, rowCount) : acc1 \in next} :
                 TRUE

RECURSIVE ParseRows(_, _, _)
\* for (let row = 0; row < lines.length; row++) from row on; the singleton
\* set holds the accumulator after this line, computed once
ParseRows(acc, lines, row) ==
    IF row >= Len(lines) THEN acc
    ELSE LET chars == lines[row + 1]
             acc1 == [acc EXCEPT !.maxWidth = Max(@, Px(Len(chars) * TILE_SIZE))]
             next == {ParseLine(acc1, chars, row, 0, Len(lines))}
         IN  CHOOSE done \in {ParseRows(acc2, lines, row + 1) : acc2 \in next} : TRUE

\* the Platform materialised for one merged run; id is the identity of the
\* object (its place in level.platforms), by which the player refers to it
PlatformOfRun(run, rowCount, id) ==
    LET px == Px(run.startCol * TILE_SIZE)
        moving == run.type = "moving"
    IN  [x |-> px,
         y |-> Px((rowCount - 1 - run.row) * TILE_SIZE),
         width |-> Px((run.endCol - run.startCol + 1) * TILE_SIZE),
         height |-> (Px(TILE_SIZE) * 4) \div 10,
         type |-> run.type,
         id |-> id,
         moveRange |-> IF moving THEN Px(TILE_SIZE * 3) ELSE UNDEFINED,
         moveSpeed |-> IF moving THEN Vel(80) ELSE UNDEFINED,
         startX |-> IF moving THEN px ELSE UNDEFINED,
         currentVelocityX |-> IF moving THEN 0 ELSE UNDEFINED]

\* asciiLevel.trim().split('\n'): the text, a sequence of characters, without
\* the white space at its ends (of the characters trim removes, the texts
\* have the space, the tab and the line feed), cut at every line feed
TextLines(asciiLevel) ==
    LET ink == {i \in 1..Len(asciiLevel) : asciiLevel[i] \notin {" ", "\t", "\n"}}
    IN  IF ink = {} THEN << << >> >>
        ELSE LET first == CHOOSE i \in ink : \A j \in ink : i <= j
                 final == CHOOSE i \in ink : \A j \in ink : j <= i
                 feeds == {i \in first..final : asciiLevel[i] = "\n"}
                 \* the k-th line starts after the (k-1)-th feed and ends before the k-th
                 Start(k) == IF k = 1 THEN first
                             ELSE 1 + CHOOSE i \in feeds :
                                          Cardinality({j \in feeds : j < i}) = k - 2
                 End(k) == IF k = Cardinality(feeds) + 1 THEN final
                           ELSE (CHOOSE i \in feeds :
                                     Cardinality({j \in feeds : j < i}) = k - 1) - 1
             IN  [k \in 1..(Cardinality(feeds) + 1) |-> SubSeq(asciiLevel, Start(k), End(k))]

\* parseLevel(asciiLevel); lines is asciiLevel.trim().split('\n'), each line
\* the sequence of its glyphs
parseLevel(lines) ==
    LET acc0 == [platformRuns |-> << >>, enemies |-> << >>, collectibles |-> << >>,
                 cannons |-> << >>, portal |-> NullPortal,
                 playerStart |-> [x |-> Px(100), y |-> Px(100)], maxWidth |-> 0]
        Level(acc) ==
            [platforms |-> [i \in 1..Len(acc.platformRuns) |->
                               PlatformOfRun(acc.platformRuns[i], Len(lines), i)],
             enemies |-> acc.enemies,
             collectibles |-> acc.collectibles,
             cannons |-> acc.cannons,
             projectiles |-> << >>,
             portal |-> acc.portal,
             playerStart |-> acc.playerStart,
             levelHeight |-> Px(Len(lines) * TILE_SIZE),
             levelWidth |-> acc.maxWidth]
    IN  CHOOSE level \in {Level(acc) : acc \in {ParseRows(acc0, lines, 0)}} : TRUE

-----------------------------------------------------------------------------
(* Player: the second class Player of src/src/main.ts *)

\* currentPlatform = null.  A reference holds the identity of a platform of
\* the current level (id > 0) or, for an object that is in no level (the
\* per-frame copy of a cannon, a platform of a discarded level), id 0 and the
\* two fields read through the reference.
NullPlatformRef == [isNull |-> TRUE, id |-> 0, type |-> "normal", currentVelocityX |-> UNDEFINED]

\* currentPlatform = platform
PlatformRef(platform) ==
    [isNull |-> FALSE, id |-> platform.id, type |-> platform.type,
     currentVelocityX |-> IF platform.id > 0 THEN UNDEFINED ELSE platform.currentVelocityX]

\* this.currentPlatform.currentVelocityX, read through the reference
RefVelocityX(ref, platforms) ==
    IF ref.id > 0 /\ \E i \in 1..Len(platforms) : platforms[i].id = ref.id
    THEN LET i == CHOOSE i \in 1..Len(platforms) : platforms[i].id = ref.id
         IN  platforms[i].currentVelocityX
    ELSE ref.currentVelocityX

\* new Player(x, y)
NewPlayer(x, y) ==
    [x |-> x - Px(PLAYER_WIDTH) \div 2, y |-> y - Px(PLAYER_HEIGHT) \div 2,
     width |-> Px(PLAYER_WIDTH), height |-> Px(PLAYER_HEIGHT),
     velocityX |-> 0, velocityY |-> 0,
     isOnGround |-> FALSE, canJump |-> TRUE, facingRight |-> TRUE, isAlive |-> TRUE,
     isInvincible |-> FALSE, invincibilityTimer |-> 0, hitFlashTimer |-> 0,
     currentPlatform |-> NullPlatformRef]

\* Player.getCenterY()
getCenterY(p) == p.y + p.height \div 2

\* Player.getBounds()
getBounds(p) == [x |-> p.x, y |-> p.y, width |-> p.width, height |-> p.height]

\* intersectsFromAbove with a landing band of 10 px under the platform top
intersectsFromAbove_ShallowBand(p, platform) ==
    LET playerBottom == p.y
        playerTop == p.y + p.height
        platformTop == platform.y + platform.height
        horizontalOverlap ==
            /\ p.x < platform.x + platform.width
            /\ p.x + p.width > platform.x
        verticalLanding ==
            /\ playerBottom <= platformTop
            /\ playerBottom >= platformTop - Px(10)
            /\ playerTop > platformTop
    IN  horizontalOverlap /\ verticalLanding

\* Player.intersectsFromAbove(platform)
intersectsFromAbove(p, platform) ==
    LET playerBottom == p.y
        playerTop == p.y + p.height
        platformTop == platform.y + platform.height
        horizontalOverlap ==
            /\ p.x < platform.x + platform.width
            /\ p.x + p.width > platform.x
        verticalLanding ==
            /\ playerBottom <= platformTop
            /\ playerBottom >= platform.y - Px(10)
            /\ playerTop > platformTop
    IN  horizontalOverlap /\ verticalLanding

\* Player.die()
die(p) == [p EXCEPT !.isAlive = FALSE]

\* Player.hit() without its invincibility check
hit_Unguarded(p) ==
    [p EXCEPT !.isInvincible = TRUE,
              !.invincibilityTimer = INVINCIBILITY_DURATION * TicksPerSecond,
              !.hitFlashTimer = HIT_FLASH_DURATION_TICKS,
              !.velocityY = Vel(200)]

\* Player.hit()
hit(p) ==
    IF p.isInvincible THEN p
    ELSE [p EXCEPT !.isInvincible = TRUE,
                   !.invincibilityTimer = INVINCIBILITY_DURATION * TicksPerSecond,
                   !.hitFlashTimer = HIT_FLASH_DURATION_TICKS,
                   !.velocityY = Vel(200)]

\* Player.respawn(x, y) that leaves the invincibility state as it is
respawn_KeepsInvincibility(p, x, y) ==
    [p EXCEPT !.x = x - p.width \div 2,
              !.y = y - p.height \div 2,
              !.velocityX = 0,
              !.velocityY = 0,
              !.isAlive = TRUE,
              !.hitFlashTimer = 0]

\* Player.respawn(x, y)
respawn(p, x, y) ==
    [p EXCEPT !.x = x - p.width \div 2,
              !.y = y - p.height \div 2,
              !.velocityX = 0,
              !.velocityY = 0,
              !.isAlive = TRUE,
              !.isInvincible = FALSE,
              !.invincibilityTimer = 0,
              !.hitFlashTimer = 0]

\* Player.update, lines 291-303: the invincibility and hit-flash timers
UpdateTimers(p, dt) ==
    LET t == p.invincibilityTimer - dt
        p1 == IF p.isInvincible
              THEN IF t <= 0
                   THEN [p EXCEPT !.isInvincible = FALSE, !.invincibilityTimer = 0]
                   ELSE [p EXCEPT !.invincibilityTimer = t]
              ELSE p
    IN  IF p1.hitFlashTimer > 0 THEN [p1 EXCEPT !.hitFlashTimer = @ - dt] ELSE p1

\* Player.update, lines 305-308: drag of a moving platform
ApplyPlatformDrag(p, dt, platforms) ==
    LET v == RefVelocityX(p.currentPlatform, platforms)
    IN  IF /\ ~p.currentPlatform.isNull
           /\ p.currentPlatform.type = "moving"
           /\ v # UNDEFINED /\ v # 0
        THEN [p EXCEPT !.x = @ + v * dt]
        ELSE p

\* the horizontal movement with a friction that is not stopped at zero
UpdateHorizontal_FrictionOvershoots(p, dt, input, control) ==
    LET accel == (ACCELERATION * control * dt * VelocityScale) \div (100 * TicksPerSecond)
        fric == (FRICTION * dt * VelocityScale) \div TicksPerSecond
        p1 == IF input.left
              THEN [p EXCEPT !.velocityX = @ - accel, !.facingRight = FALSE]
              ELSE IF input.right
              THEN [p EXCEPT !.velocityX = @ + accel, !.facingRight = TRUE]
              ELSE IF p.velocityX > 0
              THEN [p EXCEPT !.velocityX = @ - fric]
              ELSE IF p.velocityX < 0
              THEN [p EXCEPT !.velocityX = @ + fric]
              ELSE p
    IN  [p1 EXCEPT !.velocityX = Max(0 - Vel(MOVE_SPEED), Min(Vel(MOVE_SPEED), @))]

\* Player.update, lines 310-327: horizontal movement; control is in percent
UpdateHorizontal(p, dt, input, control) ==
    LET accel == (ACCELERATION * control * dt * VelocityScale) \div (100 * TicksPerSecond)
        fric == (FRICTION * dt * VelocityScale) \div TicksPerSecond
        p1 == IF input.left
              THEN [p EXCEPT !.velocityX = @ - accel, !.facingRight = FALSE]
              ELSE IF input.right
              THEN [p EXCEPT !.velocityX = @ + accel, !.facingRight = TRUE]
              ELSE IF p.velocityX > 0
              THEN [p EXCEPT !.velocityX = Max(0, @ - fric)]
              ELSE IF p.velocityX < 0
              THEN [p EXCEPT !.velocityX = Min(0, @ + fric)]
              ELSE p
    IN  [p1 EXCEPT !.velocityX = Max(0 - Vel(MOVE_SPEED), Min(Vel(MOVE_SPEED), @))]

\* the jump of Player.update without the release latch: it jumps whenever the
\* signal is held on the ground
UpdateJump_NoLatch(p, input) ==
    LET p1 == IF input.jump /\ p.isOnGround
              THEN [p EXCEPT !.velocityY = Vel(JUMP_FORCE),
                             !.isOnGround = FALSE,
                             !.canJump = FALSE,
                             !.currentPlatform = NullPlatformRef]
              ELSE p
    IN  IF ~input.jump THEN [p1 EXCEPT !.canJump = TRUE] ELSE p1

\* the jump of Player.update with the bounce force in place of the jump force
UpdateJump_BounceForce(p, input) ==
    LET p1 == IF input.jump /\ input.jumpPressed /\ p.canJump /\ p.isOnGround
              THEN [p EXCEPT !.velocityY = Vel(BOUNCE_FORCE),
                             !.isOnGround = FALSE,
                             !.canJump = FALSE,
                             !.currentPlatform = NullPlatformRef]
              ELSE p
    IN  IF ~input.jump THEN [p1 EXCEPT !.canJump = TRUE] ELSE p1

\* Player.update, lines 329-340: the jump and the release latch
UpdateJump(p, input) ==
    LET p1 == IF input.jump /\ input.jumpPressed /\ p.canJump /\ p.isOnGround
              THEN [p EXCEPT !.velocityY = Vel(JUMP_FORCE),
                             !.isOnGround = FALSE,
                             !.canJump = FALSE,
                             !.currentPlatform = NullPlatformRef]
              ELSE p
    IN  IF ~input.jump THEN [p1 EXCEPT !.canJump = TRUE] ELSE p1

\* Player.update, lines 342-355: gravity, fall clamp, integration
Integrate(p, dt) ==
    LET vy == Max(0 - Vel(MAX_FALL_SPEED),
                  p.velocityY - (GRAVITY * dt * VelocityScale) \div TicksPerSecond)
    IN  [p EXCEPT !.velocityY = vy,
                  !.x = @ + p.velocityX * dt,
                  !.y = @ + vy * dt]

\* the landing of Player.update without its test of the vertical velocity
ResolveLanding_TwoWay(p, platforms) ==
    LET p0 == [p EXCEPT !.isOnGround = FALSE, !.currentPlatform = NullPlatformRef]
        hitIdx == {i \in 1..Len(platforms) : intersectsFromAbove(p0, platforms[i])}
    IN  IF hitIdx = {} THEN p0
        ELSE LET i == CHOOSE i \in hitIdx : \A j \in hitIdx : i <= j
                 platform == platforms[i]
             IN  IF platform.type = "bouncy"
                 THEN [p0 EXCEPT !.y = platform.y + platform.height,
                                 !.velocityY = Vel(BOUNCE_FORCE),
                                 !.isOnGround = FALSE,
                                 !.currentPlatform = NullPlatformRef]
                 ELSE [p0 EXCEPT !.y = platform.y + platform.height,
                                 !.velocityY = 0,
                                 !.isOnGround = TRUE,
                                 !.currentPlatform = PlatformRef(platform)]

\* the landing of Player.update without the break: the last matching platform
\* of the list wins
ResolveLanding_LastMatch(p, platforms) ==
    LET p0 == [p EXCEPT !.isOnGround = FALSE, !.currentPlatform = NullPlatformRef]
        hitIdx == {i \in 1..Len(platforms) :
                      p0.velocityY < 0 /\ intersectsFromAbove(p0, platforms[i])}
    IN  IF hitIdx = {} THEN p0
        ELSE LET i == CHOOSE i \in hitIdx : \A j \in hitIdx : i >= j
                 platform == platforms[i]
             IN  IF platform.type = "bouncy"
                 THEN [p0 EXCEPT !.y = platform.y + platform.height,
                                 !.velocityY = Vel(BOUNCE_FORCE),
                                 !.isOnGround = FALSE,
                                 !.currentPlatform = NullPlatformRef]
                 ELSE [p0 EXCEPT !.y = platform.y + platform.height,
                                 !.velocityY = 0,
                                 !.isOnGround = TRUE,
                                 !.currentPlatform = PlatformRef(platform)]

\* Player.update, lines 357-380: one-way landing on the first matching platform
ResolveLanding(p, platforms) ==
    LET p0 == [p EXCEPT !.isOnGround = FALSE, !.currentPlatform = NullPlatformRef]
        hitIdx == {i \in 1..Len(platforms) :
                      p0.velocityY < 0 /\ intersectsFromAbove(p0, platforms[i])}
    IN  IF hitIdx = {} THEN p0
        ELSE LET i == CHOOSE i \in hitIdx : \A j \in hitIdx : i <= j
                 platform == platforms[i]
             IN  IF platform.type = "bouncy"
                 THEN [p0 EXCEPT !.y = platform.y + platform.height,
                                 !.velocityY = Vel(BOUNCE_FORCE),
                                 !.isOnGround = FALSE,
                                 !.currentPlatform = NullPlatformRef]
                 ELSE [p0 EXCEPT !.y = platform.y + platform.height,
                                 !.velocityY = 0,
                                 !.isOnGround = TRUE,
                                 !.currentPlatform = PlatformRef(platform)]

\* Player.update, lines 382-385: the world floor
CheckFell(p) == IF p.y < 0 - Px(100) THEN die(p) ELSE p

\* Player.update(deltaTime, input, platforms); deltaTime in ticks
\* The statements run in sequence: each singleton set holds the player after
\* one step, computed once from the player before it
PlayerUpdate(p, dt, input, platforms) ==
    IF ~p.isAlive THEN p
    ELSE LET control == IF p.isOnGround THEN 100 ELSE AIR_CONTROL_PCT
             s1 == {UpdateTimers(p, dt)}
             s2 == {ApplyPlatformDrag(p1, dt, platforms) : p1 \in s1}
             s3 == {UpdateHorizontal(p2, dt, input, control) : p2 \in s2}
             s4 == {UpdateJump(p3, input) : p3 \in s3}
             s5 == {Integrate(p4, dt) : p4 \in s4}
             s6 == {ResolveLanding(p5, platforms) : p5 \in s5}
             s7 == {CheckFell(p6) : p6 \in s6}
         IN  CHOOSE p7 \in s7 : TRUE

-----------------------------------------------------------------------------
(* Entity rules: src/src/entities.ts *)

\* one platform of updatePlatforms that turns round at the ends of its range
\* without the clamp of x
UpdatePlatform_NoClamp(platform, dt) ==
    IF platform.type = "moving" /\ platform.startX # UNDEFINED
    THEN LET speedOr60 == IF platform.moveSpeed \in {UNDEFINED, 0} THEN Vel(60)
                          ELSE platform.moveSpeed
             moveRange == IF platform.moveRange \in {UNDEFINED, 0} THEN Px(100)
                          ELSE platform.moveRange
             x1 == platform.x + speedOr60 * dt
             moved == [platform EXCEPT !.currentVelocityX = speedOr60, !.x = x1]
         IN  IF x1 > platform.startX + moveRange
             THEN [moved EXCEPT !.moveSpeed = 0 - Abs(speedOr60)]
             ELSE IF x1 < platform.startX
             THEN [moved EXCEPT !.moveSpeed = Abs(speedOr60)]
             ELSE moved
    ELSE platform

\* one platform of updatePlatforms
UpdatePlatform(platform, dt) ==
    IF platform.type = "moving" /\ platform.startX # UNDEFINED
    THEN LET speedOr60 == IF platform.moveSpeed \in {UNDEFINED, 0} THEN Vel(60)
                          ELSE platform.moveSpeed
             moveRange == IF platform.moveRange \in {UNDEFINED, 0} THEN Px(100)
                          ELSE platform.moveRange
             x1 == platform.x + speedOr60 * dt
             moved == [platform EXCEPT !.currentVelocityX = speedOr60, !.x = x1]
         IN  IF x1 > platform.startX + moveRange
             THEN [moved EXCEPT !.x = platform.startX + moveRange,
                                !.moveSpeed = 0 - Abs(speedOr60)]
             ELSE IF x1 < platform.startX
             THEN [moved EXCEPT !.x = platform.startX, !.moveSpeed = Abs(speedOr60)]
             ELSE moved
    ELSE platform

\* updatePlatforms(platforms, deltaTime)
updatePlatforms(platforms, dt) ==
    [i \in 1..Len(platforms) |-> UpdatePlatform(platforms[i], dt)]

\* updateWalkerEnemy that clamps at the ends of the patrol and keeps the
\* direction
updateWalkerEnemy_NoTurn(enemy, platforms, dt) ==
    LET x1 == enemy.x + enemy.velocityX * enemy.direction * dt
        patrolRange == IF enemy.patrolRange \in {UNDEFINED, 0} THEN Px(100)
                       ELSE enemy.patrolRange
    IN  [enemy EXCEPT !.x = Max(enemy.startX - patrolRange,
                                Min(enemy.startX + patrolRange, x1))]

\* updateWalkerEnemy(enemy, platforms, deltaTime)
updateWalkerEnemy(enemy, platforms, dt) ==
    LET x1 == enemy.x + enemy.velocityX * enemy.direction * dt
        patrolRange == IF enemy.patrolRange \in {UNDEFINED, 0} THEN Px(100)
                       ELSE enemy.patrolRange
        e1 == IF enemy.startX # UNDEFINED
                 /\ (x1 > enemy.startX + patrolRange \/ x1 < enemy.startX - patrolRange)
              THEN [enemy EXCEPT !.direction = 0 - @,
                                 !.x = Max(enemy.startX - patrolRange,
                                           Min(enemy.startX + patrolRange, x1))]
              ELSE [enemy EXCEPT !.x = x1]
        above == {i \in 1..Len(platforms) :
                     /\ e1.x + e1.width > platforms[i].x
                     /\ e1.x < platforms[i].x + platforms[i].width
                     /\ Abs(e1.y - (platforms[i].y + platforms[i].height)) < Px(5)}
    IN  IF above = {} THEN e1
        ELSE LET i == CHOOSE i \in above : \A j \in above : i <= j
                 platform == platforms[i]
             IN  IF e1.direction > 0
                    /\ e1.x + e1.width > platform.x + platform.width - Px(10)
                 THEN [e1 EXCEPT !.direction = 0 - 1]
                 ELSE IF e1.direction < 0 /\ e1.x < platform.x + Px(10)
                 THEN [e1 EXCEPT !.direction = 1]
                 ELSE e1

\* updateJumperEnemy(enemy, deltaTime); wave is Math.sin(Date.now() / 500) * 20
\* in position units
updateJumperEnemy(enemy, wave) ==
    [enemy EXCEPT !.y = (IF enemy.startX \in {UNDEFINED, 0} THEN enemy.y ELSE enemy.startX)
                        + wave]

\* updateEnemies without the skip of the enemies that are not alive
updateEnemies_MovesDead(enemies, platforms, dt, wave) ==
    [i \in 1..Len(enemies) |->
        LET enemy == enemies[i]
        IN  CASE enemy.type = "walker" -> updateWalkerEnemy(enemy, platforms, dt)
              [] enemy.type = "jumper" -> updateJumperEnemy(enemy, wave)
              [] OTHER -> enemy]

\* updateEnemies(enemies, platforms, deltaTime)
updateEnemies(enemies, platforms, dt, wave) ==
    [i \in 1..Len(enemies) |->
        LET enemy == enemies[i]
        IN  IF ~enemy.alive THEN enemy
            ELSE CASE enemy.type = "walker" -> updateWalkerEnemy(enemy, platforms, dt)
                   [] enemy.type = "jumper" -> updateJumperEnemy(enemy, wave)
                   [] OTHER -> enemy]

\* the projectile a cannon fires
NewProjectile(cannon) ==
    [x |-> IF cannon.direction = 1 THEN cannon.x + cannon.width ELSE cannon.x - Px(15),
     y |-> cannon.y + cannon.height \div 2 - Px(7),
     width |-> Px(15), height |-> Px(15),
     velocityX |-> cannon.direction * Vel(250), velocityY |-> 0,
     active |-> TRUE]

\* the test of updateCannons with half the fire rate
CannonFires_HalfRate(cannon, elapsed) ==
    2 * (cannon.sinceFired + elapsed) >= cannon.fireRate

\* (time - cannon.lastFired) / 1000 >= cannon.fireRate, elapsed ticks after the
\* previous frame
CannonFires(cannon, elapsed) == cannon.sinceFired + elapsed >= cannon.fireRate

RECURSIVE FiredProjectiles(_, _, _)
\* the projectiles pushed by the cannons from index i on, in cannon order
FiredProjectiles(cannons, elapsed, i) ==
    IF i > Len(cannons) THEN << >>
    ELSE (IF CannonFires(cannons[i], elapsed) THEN <<NewProjectile(cannons[i])>> ELSE << >>)
         \o FiredProjectiles(cannons, elapsed, i + 1)

\* updateCannons(cannons, projectiles, time): the cannons afterwards
updateCannons(cannons, elapsed) ==
    [i \in 1..Len(cannons) |->
        IF CannonFires(cannons[i], elapsed)
        THEN [cannons[i] EXCEPT !.sinceFired = 0]
        ELSE [cannons[i] EXCEPT !.sinceFired = Min(@ + elapsed, cannons[i].fireRate)]]

\* updateProjectiles(projectiles, deltaTime, levelWidth)
updateProjectiles(projectiles, dt, levelWidth) ==
    [i \in 1..Len(projectiles) |->
        LET projectile == projectiles[i]
            x1 == projectile.x + projectile.velocityX * dt
            y1 == projectile.y + projectile.velocityY * dt
        IN  IF ~projectile.active THEN projectile
            ELSE [projectile EXCEPT !.x = x1, !.y = y1,
                      !.active = ~(x1 < 0 - Px(100) \/ x1 > levelWidth + Px(100))]]

\* index of the first TRUE of a sequence of booleans, 0 when there is none:
\* the element at which a for-of loop returns
FirstIndex(tests) ==
    IF \E i \in 1..Len(tests) : tests[i]
    THEN CHOOSE i \in 1..Len(tests) : tests[i] /\ \A j \in 1..(i - 1) : ~tests[j]
    ELSE 0

\* checkProjectileCollision without the skip of the inactive projectiles
checkProjectileCollision_IgnoresActive(playerBounds, projectiles) ==
    FirstIndex([i \in 1..Len(projectiles) |-> intersects(playerBounds, projectiles[i])])

\* checkProjectileCollision(playerBounds, projectiles): the index of the
\* projectile that is deactivated and reported, 0 for `false`
checkProjectileCollision(playerBounds, projectiles) ==
    LET Test(projectile) == projectile.active /\ intersects(playerBounds, projectile)
    IN  FirstIndex([i \in 1..Len(projectiles) |-> Test(projectiles[i])])

\* checkEnemyCollision with a stomp band of 60% of half the enemy's width
checkEnemyCollision_HalfWidth(playerBounds, enemies) ==
    LET Test(enemy) == enemy.alive /\ intersects(playerBounds, enemy)
        i == FirstIndex([k \in 1..Len(enemies) |-> Test(enemies[k])])
    IN  IF i = 0 THEN [hit |-> FALSE, stomped |-> FALSE, enemy |-> 0]
        ELSE LET enemy == enemies[i]
                 playerBottom == playerBounds.y
                 enemyTop == enemy.y + enemy.height
                 playerCenterX == playerBounds.x + playerBounds.width \div 2
                 enemyCenterX == enemy.x + enemy.width \div 2
             IN  IF /\ playerBottom < enemyTop + Px(10)
                    /\ 10 * Abs(playerCenterX - enemyCenterX) < 3 * enemy.width
                 THEN [hit |-> TRUE, stomped |-> TRUE, enemy |-> i]
                 ELSE [hit |-> TRUE, stomped |-> FALSE, enemy |-> i]

\* checkEnemyCollision(playerBounds, enemies): enemy is the index of the
\* enemy returned, 0 when none
checkEnemyCollision(playerBounds, enemies) ==
    LET Test(enemy) == enemy.alive /\ intersects(playerBounds, enemy)
        i == FirstIndex([k \in 1..Len(enemies) |-> Test(enemies[k])])
    IN  IF i = 0 THEN [hit |-> FALSE, stomped |-> FALSE, enemy |-> 0]
        ELSE LET enemy == enemies[i]
                 playerBottom == playerBounds.y
                 enemyTop == enemy.y + enemy.height
                 playerCenterX == playerBounds.x + playerBounds.width \div 2
                 enemyCenterX == enemy.x + enemy.width \div 2
             IN  IF /\ playerBottom < enemyTop + Px(10)
                    /\ 10 * Abs(playerCenterX - enemyCenterX) < 6 * enemy.width
                 THEN [hit |-> TRUE, stomped |-> TRUE, enemy |-> i]
                 ELSE [hit |-> TRUE, stomped |-> FALSE, enemy |-> i]

\* checkCollectiblePickup without the skip of the collected ones
checkCollectiblePickup_Recollects(playerBounds, collectibles) ==
    FirstIndex([i \in 1..Len(collectibles) |-> intersects(playerBounds, collectibles[i])])

\* checkCollectiblePickup(playerBounds, collectibles): the index of the
\* collectible that is marked and returned, 0 for null
checkCollectiblePickup(playerBounds, collectibles) ==
    LET Test(collectible) == ~collectible.collected /\ intersects(playerBounds, collectible)
    IN  FirstIndex([i \in 1..Len(collectibles) |-> Test(collectibles[i])])

-----------------------------------------------------------------------------
(* Input handler: src/src/input.ts *)

\* InputHandler.state and previousJumpState after construction
NewInput ==
    [left |-> FALSE, right |-> FALSE, jump |-> FALSE, jumpPressed |-> FALSE,
     previousJumpState |-> FALSE]

\* the keydown listener of setupKeyboardListeners
InputKeyDown(inp, code) ==
    CASE code \in {"ArrowLeft", "KeyA"} -> [inp EXCEPT !.left = TRUE]
      [] code \in {"ArrowRight", "KeyD"} -> [inp EXCEPT !.right = TRUE]
      [] code \in {"ArrowUp", "KeyW", "Space"} -> [inp EXCEPT !.jump = TRUE]
      [] OTHER -> inp

\* the keyup listener of setupKeyboardListeners
InputKeyUp(inp, code) ==
    CASE code \in {"ArrowLeft", "KeyA"} -> [inp EXCEPT !.left = FALSE]
      [] code \in {"ArrowRight", "KeyD"} -> [inp EXCEPT !.right = FALSE]
      [] code \in {"ArrowUp", "KeyW", "Space"} -> [inp EXCEPT !.jump = FALSE]
      [] OTHER -> inp

\* the listeners of setupButtonEvents(this.jumpBtn, 'jump'): touchstart and
\* mousedown set the action, touchend, touchcancel, mouseup and mouseleave
\* clear it
InputButton(inp, type) ==
    [inp EXCEPT !.jump = type \in {"touchstart", "mousedown"}]

\* getState that reports the level of the jump signal
getState_Level(inp) ==
    [inp EXCEPT !.jumpPressed = inp.jump,
                !.previousJumpState = inp.jump]

\* InputHandler.getState(): the handler afterwards; the InputState returned
\* is its fields left, right, jump, jumpPressed
getState(inp) ==
    [inp EXCEPT !.jumpPressed = inp.jump /\ ~inp.previousJumpState,
                !.previousJumpState = inp.jump]

-----------------------------------------------------------------------------
(* Game: the first class Game of src/src/game.ts *)

\* Game.state as initialised, and as reset by startGame and restart
NewGameState == [score |-> 0, lives |-> 3, gameOver |-> FALSE, won |-> FALSE, paused |-> FALSE]

\* this.displayHeight * this.CAMERA_OFFSET_Y in position units
CameraOffset(displayHeight) == (Px(displayHeight) * CAMERA_OFFSET_Y_PCT) \div 100

\* one call of Game.playerHit as recorded in the log of the frame
HitRecord(before, after) ==
    [ignored |-> before.player.isInvincible,
     livesBefore |-> before.state.lives, livesAfter |-> after.state.lives,
     screenBefore |-> before.screenState, screenAfter |-> after.screenState,
     gameOverAfter |-> after.state.gameOver,
     playerBefore |-> before.player, playerAfter |-> after.player]

\* Game.playerHit() that ends the session only below zero lives
PlayerHitEffect_BelowZero(g) ==
    IF g.player.isInvincible THEN g
    ELSE LET lives == g.state.lives - 1
         IN  IF lives < 0
             THEN [g EXCEPT !.state.lives = lives,
                            !.state.gameOver = TRUE,
                            !.screenState = "gameover",
                            !.setups = @ + 1]
             ELSE [g EXCEPT !.state.lives = lives,
                            !.player = hit(g.player),
                            !.screenShakeTimer = 20]

\* Game.playerHit(); g.setups counts the calls of setupEndScreenListener
PlayerHitEffect(g) ==
    IF g.player.isInvincible THEN g
    ELSE LET lives == g.state.lives - 1
         IN  IF lives <= 0
             THEN [g EXCEPT !.state.lives = lives,
                            !.state.gameOver = TRUE,
                            !.screenState = "gameover",
                            !.setups = @ + 1]
             ELSE [g EXCEPT !.state.lives = lives,
                            !.player = hit(g.player),
                            !.screenShakeTimer = 20]

\* Game.playerHit() with the call added to the log of the frame
playerHit(g) ==
    LET after == PlayerHitEffect(g)
    IN  [after EXCEPT !.hits = Append(@, HitRecord(g, after))]

\* Game.checkPortalCollision() that compares the horizontal extent only
checkPortalCollision_XOnly(g) ==
    IF g.level.portal.isNull THEN FALSE
    ELSE LET playerBounds == getBounds(g.player)
             portal == g.level.portal
         IN  /\ playerBounds.x < portal.x + portal.width
             /\ playerBounds.x + playerBounds.width > portal.x

\* Game.checkPortalCollision()
checkPortalCollision(g) ==
    IF g.level.portal.isNull THEN FALSE
    ELSE LET playerBounds == getBounds(g.player)
             portal == g.level.portal
         IN  /\ playerBounds.x < portal.x + portal.width
             /\ playerBounds.x + playerBounds.width > portal.x
             /\ playerBounds.y < portal.y + portal.height
             /\ playerBounds.y + playerBounds.height > portal.y

\* Game.update, lines 188-199: the platforms and the cannons as platforms
AllPlatforms(level) ==
    level.platforms \o
    [i \in 1..Len(level.cannons) |->
        [x |-> level.cannons[i].x, y |-> level.cannons[i].y,
         width |-> level.cannons[i].width, height |-> level.cannons[i].height,
         type |-> "normal", id |-> 0,
         moveRange |-> UNDEFINED, moveSpeed |-> UNDEFINED, startX |-> UNDEFINED,
         currentVelocityX |-> UNDEFINED]]

\* Game.update, lines 181-202: input sampling and the player update
UpdatePlayerStage(g, dt) ==
    LET inp == getState(g.input)
    IN  [g EXCEPT !.input = inp,
                  !.player = PlayerUpdate(g.player, dt, inp, AllPlatforms(g.level))]

\* Game.update, lines 218-229: platforms, enemies, cannons, projectiles
UpdateEntitiesStage(g, dt, elapsed, wave) ==
    LET platforms == updatePlatforms(g.level.platforms, dt)
        enemies == updateEnemies(g.level.enemies, platforms, dt, wave)
        fired == FiredProjectiles(g.level.cannons, elapsed, 1)
        cannons == updateCannons(g.level.cannons, elapsed)
        projectiles == updateProjectiles(g.level.projectiles \o fired, dt, g.level.levelWidth)
    IN  [g EXCEPT !.level.platforms = platforms,
                  !.level.enemies = enemies,
                  !.level.cannons = cannons,
                  !.level.projectiles = projectiles]

\* Game.update, lines 231-237: the win condition
PortalStage(g) ==
    IF ~g.level.portal.isNull /\ checkPortalCollision(g)
    THEN [g EXCEPT !.state.won = TRUE, !.screenState = "won", !.setups = @ + 1]
    ELSE g

\* Game.update, lines 241-251: the enemy collision
EnemyCollisionStage(g) ==
    LET enemyHit == checkEnemyCollision(getBounds(g.player), g.level.enemies)
    IN  IF enemyHit.hit /\ enemyHit.enemy # 0
        THEN IF enemyHit.stomped
             THEN [g EXCEPT !.level.enemies[enemyHit.enemy].alive = FALSE,
                            !.state.score = @ + 100,
                            !.player.velocityY = Vel(400)]
             ELSE playerHit(g)
        ELSE g

\* Game.update, lines 253-255: the projectile collision
ProjectileCollisionStage(g) ==
    LET i == checkProjectileCollision(getBounds(g.player), g.level.projectiles)
    IN  IF i # 0
        THEN playerHit([g EXCEPT !.level.projectiles[i].active = FALSE])
        ELSE g

\* the collisions of Game.update without the invincibility check
CollisionStage_Unguarded(g) == ProjectileCollisionStage(EnemyCollisionStage(g))

\* Game.update, lines 239-256: collisions, only if not invincible
CollisionStage(g) ==
    IF ~g.player.isInvincible
    THEN ProjectileCollisionStage(EnemyCollisionStage(g))
    ELSE g

\* Game.update, lines 258-273: collectibles
CollectibleStage(g) ==
    LET i == checkCollectiblePickup(getBounds(g.player), g.level.collectibles)
    IN  IF i # 0
        THEN LET type == g.level.collectibles[i].type
                 reward == CASE type = "coin" -> 10
                             [] type = "star" -> 50
                             [] type = "powerup" -> 100
                             [] OTHER -> 0
             IN  [g EXCEPT !.level.collectibles[i].collected = TRUE,
                           !.state.score = @ + reward]
        ELSE g

\* Game.update, lines 275-280: the highest point and its bonus
HighestStage(g) ==
    IF getCenterY(g.player) > g.highestY
    THEN [g EXCEPT !.state.score = @ + Floor(getCenterY(g.player) - g.highestY, Px(TILE_SIZE)),
                   !.highestY = getCenterY(g.player)]
    ELSE g

\* Game.update, lines 282-285: the player died
DeathStage(g) == IF ~g.player.isAlive THEN playerHit(g) ELSE g

\* the camera of Game.update with a target that eases towards the ideal
\* position when the player climbs
CameraStage_DampedTarget(g, dt) ==
    LET idealCameraY == getCenterY(g.player) - CameraOffset(g.displayHeight)
        target == IF idealCameraY > g.cameraTargetY
                  THEN g.cameraTargetY
                       + MulDivTrunc(idealCameraY - g.cameraTargetY,
                                     CAMERA_SMOOTHING * dt, TicksPerSecond)
                  ELSE IF idealCameraY < g.cameraTargetY - Px(g.displayHeight) \div 2
                  THEN idealCameraY + (Px(g.displayHeight) * 3) \div 10
                  ELSE g.cameraTargetY
    IN  [g EXCEPT !.cameraTargetY = target,
                  !.cameraY = @ + MulDivTrunc(target - @, CAMERA_SMOOTHING * dt, TicksPerSecond)]

\* the camera of Game.update with a target that snaps to the ideal position
\* when the player is more than half a display under it
CameraStage_SnapsDown(g, dt) ==
    LET idealCameraY == getCenterY(g.player) - CameraOffset(g.displayHeight)
        target == IF idealCameraY > g.cameraTargetY THEN idealCameraY
                  ELSE IF idealCameraY < g.cameraTargetY - Px(g.displayHeight) \div 2
                  THEN idealCameraY
                  ELSE g.cameraTargetY
    IN  [g EXCEPT !.cameraTargetY = target,
                  !.cameraY = @ + MulDivTrunc(target - @, CAMERA_SMOOTHING * dt, TicksPerSecond)]

\* the camera of Game.update with an easing of three times the smoothing
CameraStage_Overshoots(g, dt) ==
    LET idealCameraY == getCenterY(g.player) - CameraOffset(g.displayHeight)
        target == IF idealCameraY > g.cameraTargetY THEN idealCameraY
                  ELSE IF idealCameraY < g.cameraTargetY - Px(g.displayHeight) \div 2
                  THEN idealCameraY + (Px(g.displayHeight) * 3) \div 10
                  ELSE g.cameraTargetY
    IN  [g EXCEPT !.cameraTargetY = target,
                  !.cameraY = @ + MulDivTrunc(target - @, 3 * CAMERA_SMOOTHING * dt,
                                              TicksPerSecond)]

\* Game.update, lines 287-297: the camera; the easing product is rounded
\* towards zero
CameraStage(g, dt) ==
    LET idealCameraY == getCenterY(g.player) - CameraOffset(g.displayHeight)
        target == IF idealCameraY > g.cameraTargetY THEN idealCameraY
                  ELSE IF idealCameraY < g.cameraTargetY - Px(g.displayHeight) \div 2
                  THEN idealCameraY + (Px(g.displayHeight) * 3) \div 10
                  ELSE g.cameraTargetY
    IN  [g EXCEPT !.cameraTargetY = target,
                  !.cameraY = @ + MulDivTrunc(target - @, CAMERA_SMOOTHING * dt, TicksPerSecond)]

\* Game.update, lines 299-301: the screen shake timer, in ticks
ShakeStage(g, dt) ==
    IF g.screenShakeTimer > 0 THEN [g EXCEPT !.screenShakeTimer = @ - dt] ELSE g

\* the guard of Game.update without the screen state
UpdateRuns_FlagsOnly(g) == ~(g.state.gameOver \/ g.state.won \/ g.state.paused)

\* Game.update, lines 178-179: the frame is simulated
UpdateRuns(g) ==
    /\ g.screenState = "playing"
    /\ ~(g.state.gameOver \/ g.state.won \/ g.state.paused)

\* the log entry of Game.update: the player is invincible when the
\* collisions are evaluated
ShieldStage(g) == [g EXCEPT !.shielded = g.player.isInvincible]

\* Game.update(deltaTime); elapsed is the wall-clock time since the previous
\* frame and wave the value of the jumper sine, both read inside the frame.
\* The statements run in sequence: each singleton set holds the Game object
\* after one step, computed once from the object before it
update(g, dt, elapsed, wave) ==
    IF ~UpdateRuns(g) THEN g
    ELSE LET s1 == {UpdatePlayerStage(g, dt)}
             s2 == {UpdateEntitiesStage(g1, dt, elapsed, wave) : g1 \in s1}
             s3 == {ShieldStage(PortalStage(g2)) : g2 \in s2}
             s4 == {CollisionStage(g3) : g3 \in s3}
             s5 == {CollectibleStage(g4) : g4 \in s4}
             s6 == {HighestStage(g5) : g5 \in s5}
             s7 == {DeathStage(g6) : g6 \in s6}
             s8 == {CameraStage(g7, dt) : g7 \in s7}
             s9 == {ShakeStage(g8, dt) : g8 \in s8}
         IN  CHOOSE g9 \in s9 : TRUE

\* the reference to a platform of the level that is being discarded
Detach(ref, platforms) ==
    IF ref.isNull \/ ref.id = 0 THEN ref
    ELSE [ref EXCEPT !.id = 0, !.currentVelocityX = RefVelocityX(ref, platforms)]

\* Game.startGame()
startGame(g, lines) ==
    LET lvl == parseLevel(lines)
        pl == NewPlayer(lvl.playerStart.x, lvl.playerStart.y)
        cam == getCenterY(pl) - CameraOffset(g.displayHeight)
    IN  [g EXCEPT !.level = lvl,
                  !.player = pl,
                  !.cameraY = cam,
                  !.cameraTargetY = cam,
                  !.highestY = getCenterY(pl),
                  !.state = NewGameState,
                  !.screenState = "playing"]

\* Game.restart(); g.restarted logs the screen state each restart ran in
restart(g, lines) ==
    LET lvl == parseLevel(lines)
        old == [g.player EXCEPT !.currentPlatform = Detach(@, g.level.platforms)]
        pl == respawn(old, lvl.playerStart.x, lvl.playerStart.y)
        cam == getCenterY(pl) - CameraOffset(g.displayHeight)
    IN  [g EXCEPT !.state = NewGameState,
                  !.level = lvl,
                  !.player = pl,
                  !.cameraY = cam,
                  !.cameraTargetY = cam,
                  !.highestY = getCenterY(pl),
                  !.screenState = "playing",
                  !.restarted = Append(@, g.screenState)]

-----------------------------------------------------------------------------
(* Bounds of the model *)

\* restart() calls followed in one behaviour
MaxRestarts == 2

\* projectiles a level collects before its frames stop being followed
MaxProjectiles == 2

\* the level texts a session is decoded from (DEMO_LEVEL in the program)
LevelWalker ==
    << <<".", ".", "O", ".">>,
       <<"W", ".", "P", ".">>,
       <<"#", "#", "#", "#">> >>

LevelCannon ==
    << <<".", ".", "*">>,
       <<">", ".", "P">>,
       <<"#", "#", "#">> >>

LevelFall ==
    << <<".", ".", "P">>,
       <<">", ".", ".">>,
       <<"#", ".", ".">> >>

LevelVoid ==
    << <<"P", ".">>,
       <<".", "#">> >>

\* the player starts over a walker
LevelStomp ==
    << <<"P", ".">>,
       <<"W", ".">>,
       <<"#", "#">> >>

\* the player starts seven tiles over a star that is over a coin, over no
\* ground
LevelStars ==
    << <<"P">>, <<".">>, <<".">>, <<".">>, <<".">>, <<".">>, <<".">>, <<"*">>, <<"C">> >>

LevelTexts == {LevelWalker, LevelCannon, LevelFall, LevelVoid, LevelStomp, LevelStars}

\* window.innerHeight
DisplayHeights == {600}

\* wall-clock ticks between two frame callbacks
Elapsed == {MAX_DELTA_TICKS}

\* values of Math.sin(Date.now() / 500) * 20 in position units
Waves == {0 - Px(20), 0, Px(20)}

\* key codes of the keyboard events
Keys == {"Space"}

-----------------------------------------------------------------------------
(* State *)

VARIABLES
    screenState,        \* Game.screenState
    state,              \* Game.state
    player,             \* Game.player
    level,              \* Game.level
    input,              \* Game.input: InputHandler.state and previousJumpState
    cameraY,            \* Game.cameraY
    cameraTargetY,      \* Game.cameraTargetY
    highestY,           \* Game.highestY
    screenShakeTimer,   \* Game.screenShakeTimer, in ticks
    displayHeight,      \* Game.displayHeight
    introListener,      \* the listeners of setupIntroListener are registered
    listeners,          \* the closures made by setupEndScreenListener
    levelText,          \* the level text
    restarts,           \* number of restart() calls so far
    last                \* what the last frame or restart did (history)

vars == <<screenState, state, player, level, input, cameraY, cameraTargetY, highestY,
          screenShakeTimer, displayHeight, introListener, listeners, levelText,
          restarts, last>>

\* this.level before startGame
NoLevel ==
    [platforms |-> << >>, enemies |-> << >>, collectibles |-> << >>, cannons |-> << >>,
     projectiles |-> << >>, portal |-> NullPortal,
     playerStart |-> [x |-> 0, y |-> 0], levelHeight |-> 0, levelWidth |-> 0]

\* this.player before startGame
NoPlayer == [NewPlayer(0, 0) EXCEPT !.isAlive = FALSE]

\* the fields of the Game object as one record
Game ==
    [screenState |-> screenState, state |-> state, player |-> player, level |-> level,
     input |-> input, cameraY |-> cameraY, cameraTargetY |-> cameraTargetY,
     highestY |-> highestY, screenShakeTimer |-> screenShakeTimer,
     displayHeight |-> displayHeight,
     setups |-> 0, hits |-> << >>, restarted |-> << >>, shielded |-> FALSE]

\* the Game object becomes g
SetGame(g) ==
    /\ screenState' = g.screenState
    /\ state' = g.state
    /\ player' = g.player
    /\ level' = g.level
    /\ input' = g.input
    /\ cameraY' = g.cameraY
    /\ cameraTargetY' = g.cameraTargetY
    /\ highestY' = g.highestY
    /\ screenShakeTimer' = g.screenShakeTimer
    /\ displayHeight' = g.displayHeight

\* what a frame (op "update") or a step that ran startGame or restart (op
\* "event") leaves in `last`: whether the frame was simulated, the log of its
\* playerHit calls, whether its collisions met an invincible player, the
\* screen states restart() ran in
Step(op, ran, g) ==
    [op |-> op, ran |-> ran, hits |-> g.hits, shielded |-> g.shielded,
     restarted |-> g.restarted]

\* `last` after an event that made the Game object g
AfterEvent(g) == IF g.restarted # << >> \/ g.screenState # screenState
                 THEN Step("event", FALSE, g) ELSE last

\* one closure of setupEndScreenListener: the 500 ms timer is pending
NewListener == [armTimer |-> TRUE, key |-> FALSE, touch |-> FALSE, touchTimers |-> 0]

\* the closures that still hold a timer or a listener; after MaxRestarts
\* restarts no closure can act in the model any more, and none is kept
Live(ls, r) ==
    IF r >= MaxRestarts THEN << >>
    ELSE SelectSeq(ls, LAMBDA l : l.armTimer \/ l.key \/ l.touch \/ l.touchTimers > 0)

\* n more calls of setupEndScreenListener
AddListeners(ls, n) == ls \o [i \in 1..n |-> NewListener]

\* Game constructor
Init ==
    /\ screenState = "intro"
    /\ state = NewGameState
    /\ player = NoPlayer
    /\ level = NoLevel
    /\ input = NewInput
    /\ cameraY = 0
    /\ cameraTargetY = 0
    /\ highestY = 0
    /\ screenShakeTimer = 0
    /\ displayHeight \in DisplayHeights
    /\ introListener = TRUE
    /\ listeners = << >>
    /\ levelText \in LevelTexts
    /\ restarts = 0
    /\ last = [op |-> "event", ran |-> FALSE, hits |-> << >>, shielded |-> FALSE,
               restarted |-> << >>]

\* the listeners of setupIntroListener on a start signal
IntroSignal(g) == IF introListener /\ g.screenState = "intro" THEN startGame(g, levelText) ELSE g

\* the intro listeners after a start signal
IntroAfter(g) == IF introListener /\ g.screenState = "intro" THEN FALSE ELSE introListener

RECURSIVE RestartTimes(_, _)
\* restart() run n times in a row
RestartTimes(g, n) == IF n = 0 THEN g ELSE RestartTimes(restart(g, levelText), n - 1)

\* a keydown event on window: the input handler, the intro listener and the
\* handleKey of every armed end-screen closure, in order of registration
KeyDown(code) ==
    LET g0 == [Game EXCEPT !.input = InputKeyDown(input, code)]
        g1 == IF code \in {"Space", "Enter"} THEN IntroSignal(g0) ELSE g0
        n == IF code = "Space" THEN Cardinality({i \in 1..Len(listeners) : listeners[i].key})
             ELSE 0
        g2 == RestartTimes(g1, n)
    IN  /\ restarts + n <= MaxRestarts
        /\ SetGame(g2)
        /\ introListener' = IF code \in {"Space", "Enter"} THEN IntroAfter(g0) ELSE introListener
        /\ listeners' = IF code = "Space"
                        THEN Live([i \in 1..Len(listeners) |->
                                 IF listeners[i].key
                                 THEN [listeners[i] EXCEPT !.key = FALSE, !.touch = FALSE]
                                 ELSE listeners[i]], restarts + n)
                        ELSE listeners
        /\ restarts' = restarts + n
        /\ last' = AfterEvent(g2)
        /\ UNCHANGED levelText

\* a keyup event on window
KeyUp(code) ==
    /\ input' = InputKeyUp(input, code)
    /\ UNCHANGED <<last, screenState, state, player, level, cameraY, cameraTargetY, highestY,
                   screenShakeTimer, displayHeight, introListener, listeners, levelText,
                   restarts>>

\* a touchstart event on window: the intro listener, and the handleTouch of
\* every armed end-screen closure, which starts its 100 ms timer
TouchStart ==
    /\ SetGame(IntroSignal(Game))
    /\ introListener' = IntroAfter(Game)
    /\ listeners' = [i \in 1..Len(listeners) |->
                        IF listeners[i].touch
                        THEN [listeners[i] EXCEPT !.touch = FALSE, !.touchTimers = @ + 1]
                        ELSE listeners[i]]
    /\ last' = AfterEvent(IntroSignal(Game))
    /\ UNCHANGED <<levelText, restarts>>

\* a click event on window: the intro listener
Click ==
    /\ introListener /\ screenState = "intro"
    /\ SetGame(IntroSignal(Game))
    /\ introListener' = IntroAfter(Game)
    /\ last' = AfterEvent(IntroSignal(Game))
    /\ UNCHANGED <<listeners, levelText, restarts>>

\* the 500 ms timer of closure i fires: its listeners are registered
ArmTimer(i) ==
    /\ listeners[i].armTimer
    /\ listeners' = [listeners EXCEPT ![i] = [@ EXCEPT !.armTimer = FALSE,
                                                       !.key = TRUE, !.touch = TRUE]]
    /\ UNCHANGED <<last, screenState, state, player, level, input, cameraY, cameraTargetY,
                   highestY, screenShakeTimer, displayHeight, introListener, levelText,
                   restarts>>

\* a 100 ms timer of closure i fires: restart() and the listeners are removed
TouchTimer(i) ==
    LET g == restart(Game, levelText)
    IN  /\ listeners[i].touchTimers > 0
        /\ restarts < MaxRestarts
        /\ SetGame(g)
        /\ listeners' = Live([listeners EXCEPT ![i] = [@ EXCEPT !.touchTimers = @ - 1,
                                                               !.key = FALSE,
                                                               !.touch = FALSE]], restarts + 1)
        /\ restarts' = restarts + 1
        /\ last' = AfterEvent(g)
        /\ UNCHANGED <<introListener, levelText>>

\* the level has a living jumper, the only reader of the sine
HasJumper == \E i \in 1..Len(level.enemies) :
                 level.enemies[i].alive /\ level.enemies[i].type = "jumper"

\* the cannons that fire in a frame elapsed ticks after the previous one
FiringCannons(elapsed) ==
    {i \in 1..Len(level.cannons) : CannonFires(level.cannons[i], elapsed)}

\* the deltaTime of gameLoop without the clamp
FrameDeltaTime_Unclamped(elapsed) == elapsed

\* gameLoop, line 757: Math.min((time - this.lastTime) / 1000, 0.1), in ticks
FrameDeltaTime(elapsed) == Min(elapsed, MAX_DELTA_TICKS)

\* gameLoop of Game.start: one frame callback, update then render (render
\* changes nothing of the simulation)
GameLoop ==
    \E elapsed \in Elapsed, wave \in (IF HasJumper THEN Waves ELSE {0}) :
        LET deltaTime == FrameDeltaTime(elapsed)
            g == update(Game, deltaTime, elapsed, wave)
        IN  /\ UpdateRuns(Game) =>
                  Len(level.projectiles) + Cardinality(FiringCannons(elapsed)) <= MaxProjectiles
            /\ SetGame(g)
            /\ listeners' = Live(AddListeners(listeners, g.setups), restarts)
            /\ last' = Step("update", UpdateRuns(Game), g)
            /\ UNCHANGED <<introListener, levelText, restarts>>

Next ==
    \/ \E code \in Keys : KeyDown(code)
    \/ \E code \in Keys : KeyUp(code)
    \/ TouchStart
    \/ Click
    \/ \E i \in 1..Len(listeners) : ArmTimer(i)
    \/ \E i \in 1..Len(listeners) : TouchTimer(i)
    \/ GameLoop

Spec == Init /\ [][Next]_vars

\* the frame callback is rescheduled by every frame: frames keep running
FairSpec == Spec /\ WF_vars(GameLoop)

-----------------------------------------------------------------------------
(* The Player class on its own: its methods called in any order *)

\* the level the player is placed in
PlayerLevel ==
    << <<"P">>,
       <<"#">> >>

\* the InputStates given to Player.update
PlayerInputs ==
    {[left |-> FALSE, right |-> FALSE, jump |-> j, jumpPressed |-> jp] : j, jp \in BOOLEAN}

\* deltaTime, in ticks, of a frame that starts at rest (on the ground, no
\* timer running): every value the frame driver can pass
RestDeltas == 1..MAX_DELTA_TICKS

\* deltaTime, in ticks, of the other frames
MotionDeltas == {MAX_DELTA_TICKS}

\* the deltaTimes given to Player.update
PlayerDeltas(p) == IF p.isOnGround /\ ~p.isInvincible THEN RestDeltas ELSE MotionDeltas

\* Player.update took the jump branch (lines 330-335): the only place that
\* clears isOnGround before the landing step
TookJump(p, dt, inp) ==
    LET control == IF p.isOnGround THEN 100 ELSE AIR_CONTROL_PCT
        s1 == {UpdateTimers(p, dt)}
        s2 == {ApplyPlatformDrag(p1, dt, AllPlatforms(level)) : p1 \in s1}
        s3 == {UpdateHorizontal(p2, dt, inp, control) : p2 \in s2}
    IN  p.isAlive /\ \E p3 \in s3 : p3.isOnGround /\ ~UpdateJump(p3, inp).isOnGround

InitPlayer ==
    /\ screenState = "intro"
    /\ state = NewGameState
    /\ level = parseLevel(PlayerLevel)
    /\ player = NewPlayer(level.playerStart.x, level.playerStart.y)
    /\ input = NewInput
    /\ cameraY = 0
    /\ cameraTargetY = 0
    /\ highestY = 0
    /\ screenShakeTimer = 0
    /\ displayHeight \in DisplayHeights
    /\ introListener = TRUE
    /\ listeners = << >>
    /\ levelText = PlayerLevel
    /\ restarts = 0
    /\ last = [op |-> "new", before |-> player, input |-> NewInput, dt |-> 0,
               jumped |-> FALSE, held |-> FALSE, heldBefore |-> FALSE]

\* what the Player steps leave unchanged
PlayerFrame ==
    UNCHANGED <<screenState, state, level, input, cameraY, cameraTargetY, highestY,
                screenShakeTimer, displayHeight, introListener, listeners, levelText,
                restarts>>

\* player.update(deltaTime, input, platforms); last.held: the jump signal was
\* held in every frame since the last jump, that frame included
CallUpdate ==
    \E inp \in PlayerInputs, dt \in PlayerDeltas(player) :
        LET jumped == TookJump(player, dt, inp)
        IN  /\ player' = PlayerUpdate(player, dt, inp, AllPlatforms(level))
            /\ last' = [op |-> "update", before |-> player, input |-> inp, dt |-> dt,
                        jumped |-> jumped,
                        held |-> inp.jump /\ (jumped \/ last.held),
                        heldBefore |-> last.held]
            /\ PlayerFrame

\* player.hit()
CallHit ==
    /\ player' = hit(player)
    /\ last' = [last EXCEPT !.op = "hit", !.before = player, !.jumped = FALSE,
                            !.heldBefore = last.held]
    /\ PlayerFrame

NextPlayer == CallUpdate \/ CallHit

SpecPlayer == InitPlayer /\ [][NextPlayer]_vars

-----------------------------------------------------------------------------
(* Player.update with the direction keys, from any velocity *)

\* the number of Player.update calls that are followed from one start
MaxRunFrames == 3

\* The player is over the ledge of PlayerLevel with a horizontal velocity
\* between the clamps: at rest on it, or in the air at the start position,
\* rising from a jump, at the top of it, falling, or falling at the fall
\* clamp
InitRun ==
    /\ screenState = "intro"
    /\ state = NewGameState
    /\ levelText = PlayerLevel
    /\ level = parseLevel(levelText)
    /\ \E vx \in {0 - Vel(MOVE_SPEED), 0 - Vel(330), 0 - Vel(150), 0 - Vel(10), 0,
                   Vel(10), Vel(150), Vel(330), Vel(MOVE_SPEED)},
          vy \in {Vel(JUMP_FORCE), 0, 0 - Vel(770), 0 - Vel(MAX_FALL_SPEED)},
          resting \in BOOLEAN :
          LET p == NewPlayer(level.playerStart.x, level.playerStart.y)
              ledge == level.platforms[1]
          IN  player = IF resting
                       THEN [p EXCEPT !.velocityX = vx, !.y = ledge.y + ledge.height,
                                      !.isOnGround = TRUE,
                                      !.currentPlatform = PlatformRef(ledge)]
                       ELSE [p EXCEPT !.velocityX = vx, !.velocityY = vy]
    /\ input = NewInput
    /\ cameraY = 0
    /\ cameraTargetY = 0
    /\ highestY = 0
    /\ screenShakeTimer = 0
    /\ displayHeight \in DisplayHeights
    /\ introListener = TRUE
    /\ listeners = << >>
    /\ restarts = 0
    /\ last = [op |-> "new", before |-> player, input |-> NewInput, dt |-> 0, frames |-> 0]

\* player.update(deltaTime, input, platforms) with any direction input and a
\* deltaTime of 0, 0.04 or 0.1 s
CallRun ==
    \E left \in BOOLEAN, right \in BOOLEAN, dt \in {0, 4, MAX_DELTA_TICKS} :
        LET inp == [left |-> left, right |-> right, jump |-> FALSE, jumpPressed |-> FALSE]
        IN  /\ last.frames < MaxRunFrames
            /\ player' = PlayerUpdate(player, dt, inp, AllPlatforms(level))
            /\ last' = [op |-> "update", before |-> player, input |-> inp, dt |-> dt,
                        frames |-> last.frames + 1]
            /\ PlayerFrame

SpecRun == InitRun /\ [][CallRun]_vars

-----------------------------------------------------------------------------
(* parseLevel on level texts *)

\* longest level text of platform and empty glyphs given to parseLevel; the
\* texts with entity, unmapped and white-space glyphs are two shorter
MaxTextLen == 6

\* the level texts: every text of "#", "o", "." and line feeds up to
\* MaxTextLen, and every text of a walker, a star, a cannon, the portal, a
\* platform, an unmapped glyph, a space, a tab and line feeds up to
\* MaxTextLen - 2
ParseTexts ==
    UNION {[1..n -> {"#", "o", ".", "\n"}] : n \in 0..MaxTextLen}
    \cup UNION {[1..n -> {"W", "*", ">", "O", "#", "?", " ", "\t", "\n"}] :
                   n \in 0..(MaxTextLen - 2)}

InitParse ==
    /\ screenState = "intro"
    /\ state = NewGameState
    /\ player = NoPlayer
    /\ level = NoLevel
    /\ input = NewInput
    /\ cameraY = 0
    /\ cameraTargetY = 0
    /\ highestY = 0
    /\ screenShakeTimer = 0
    /\ displayHeight \in DisplayHeights
    /\ introListener = TRUE
    /\ listeners = << >>
    /\ levelText = << >>
    /\ restarts = 0
    /\ \E text \in ParseTexts : last = [op |-> "new", text |-> text]

\* this.level = parseLevel(text)
CallParseLevel ==
    /\ last.op = "new"
    /\ level' = parseLevel(TextLines(last.text))
    /\ last' = [last EXCEPT !.op = "parseLevel"]
    /\ UNCHANGED <<screenState, state, player, input, cameraY, cameraTargetY, highestY,
                   screenShakeTimer, displayHeight, introListener, listeners, levelText,
                   restarts>>

SpecParse == InitParse /\ [][CallParseLevel]_vars

-----------------------------------------------------------------------------
(* The frame callback after gaps of any length *)

\* the level of the frames with gaps: the player falls past the only platform
InitLoop == Init /\ levelText = LevelVoid

\* gameLoop of Game.start when the callbacks come 40 ms, 100 ms, 250 ms or
\* 1.6 s apart; `last` keeps the gap, the deltaTime given to update and the
\* player before the frame
StalledLoop ==
    \E elapsed \in {4, MAX_DELTA_TICKS, 25, FIRE_RATE_TICKS + MAX_DELTA_TICKS} :
        LET deltaTime == FrameDeltaTime(elapsed)
            g == update(Game, deltaTime, elapsed, 0)
        IN  /\ UpdateRuns(Game) =>
                  Len(level.projectiles) + Cardinality(FiringCannons(elapsed)) <= MaxProjectiles
            /\ SetGame(g)
            /\ listeners' = Live(AddListeners(listeners, g.setups), restarts)
            /\ last' = [op |-> "update", ran |-> UpdateRuns(Game), hits |-> g.hits,
                        elapsed |-> elapsed, deltaTime |-> deltaTime, before |-> player]
            /\ UNCHANGED <<introListener, levelText, restarts>>

SpecLoop ==
    InitLoop /\ [][(\E code \in Keys : KeyDown(code)) \/ (\E code \in Keys : KeyUp(code))
                   \/ StalledLoop]_vars

\* frames followed after the start of the ride
MaxRideFrames == 20

\* the ride: the session right after startGame on a level whose player starts
\* over a moving platform of two tiles; no key is pressed
InitRide ==
    /\ levelText = << <<".", "P">>, <<"~", "~">> >>
    /\ displayHeight \in DisplayHeights
    /\ \E g \in {startGame([screenState |-> "intro", state |-> NewGameState,
                             player |-> NoPlayer, level |-> NoLevel, input |-> NewInput,
                             cameraY |-> 0, cameraTargetY |-> 0, highestY |-> 0,
                             screenShakeTimer |-> 0, displayHeight |-> displayHeight,
                             setups |-> 0, hits |-> << >>, restarted |-> << >>,
                             shielded |-> FALSE], levelText)} :
         /\ screenState = g.screenState
         /\ state = g.state
         /\ player = g.player
         /\ level = g.level
         /\ input = g.input
         /\ cameraY = g.cameraY
         /\ cameraTargetY = g.cameraTargetY
         /\ highestY = g.highestY
         /\ screenShakeTimer = g.screenShakeTimer
    /\ introListener = FALSE
    /\ listeners = << >>
    /\ restarts = 0
    /\ last = [op |-> "event", ran |-> FALSE, frames |-> 0]

\* gameLoop of Game.start with frames of 40 ms and 100 ms
RideLoop ==
    \E elapsed \in {4, MAX_DELTA_TICKS} :
        LET g == update(Game, FrameDeltaTime(elapsed), elapsed, 0)
        IN  /\ last.frames < MaxRideFrames
            /\ SetGame(g)
            /\ listeners' = Live(AddListeners(listeners, g.setups), restarts)
            /\ last' = [op |-> "update", ran |-> UpdateRuns(Game),
                        frames |-> last.frames + 1]
            /\ UNCHANGED <<introListener, levelText, restarts>>

SpecRide == InitRide /\ [][RideLoop]_vars

-----------------------------------------------------------------------------
(* Sessions with a cannon and a walker, and with a long fall *)

\* projectiles the level of the duel collects before its frames stop being
\* followed
MaxDuelProjectiles == 5

\* the session right after startGame on a level whose player starts on the
\* ground in the line of fire of a cannon and in the patrol of a walker, or on
\* a level whose player starts five tiles over the only platform
InitDuel ==
    /\ levelText \in { << <<">", "W", ".", "P">>, <<"#", "#", "#", "#">> >>,
                       << <<"P">>, <<".">>, <<".">>, <<".">>, <<".">>, <<"#">> >> }
    /\ displayHeight \in DisplayHeights
    /\ \E g \in {startGame([screenState |-> "intro", state |-> NewGameState,
                             player |-> NoPlayer, level |-> NoLevel, input |-> NewInput,
                             cameraY |-> 0, cameraTargetY |-> 0, highestY |-> 0,
                             screenShakeTimer |-> 0, displayHeight |-> displayHeight,
                             setups |-> 0, hits |-> << >>, restarted |-> << >>,
                             shielded |-> FALSE], levelText)} :
         /\ screenState = g.screenState
         /\ state = g.state
         /\ player = g.player
         /\ level = g.level
         /\ input = g.input
         /\ cameraY = g.cameraY
         /\ cameraTargetY = g.cameraTargetY
         /\ highestY = g.highestY
         /\ screenShakeTimer = g.screenShakeTimer
    /\ introListener = FALSE
    /\ listeners = << >>
    /\ restarts = 0
    /\ last = [op |-> "event", ran |-> FALSE, hits |-> << >>, shielded |-> FALSE,
               restarted |-> << >>]

\* gameLoop of Game.start with frames of 100 ms
DuelLoop ==
    LET g == update(Game, FrameDeltaTime(MAX_DELTA_TICKS), MAX_DELTA_TICKS, 0)
    IN  /\ UpdateRuns(Game) =>
              Len(level.projectiles) + Cardinality(FiringCannons(MAX_DELTA_TICKS))
                  <= MaxDuelProjectiles
        /\ SetGame(g)
        /\ listeners' = Live(AddListeners(listeners, g.setups), restarts)
        /\ last' = Step("update", UpdateRuns(Game), g)
        /\ UNCHANGED <<introListener, levelText, restarts>>

SpecDuel ==
    InitDuel /\ [][(\E code \in Keys : KeyDown(code)) \/ (\E code \in Keys : KeyUp(code))
                   \/ DuelLoop]_vars

-----------------------------------------------------------------------------
(* Player.update over platforms of every kind, from any start position *)

\* the level texts: a platform over the start and the ground under it; a
\* bouncy run next to a normal run, in both orders; a platform over a cannon
LandingLevels ==
    { << <<"#">>,
         <<"P">>,
         <<"#">> >>,
      << <<"P", ".">>,
         <<"o", "#">> >>,
      << <<"P", ".">>,
         <<"#", "o">> >>,
      << <<"P">>,
         <<"#">>,
         <<">">> >> }

\* the player is constructed at playerStart or half a tile to its right, and
\* 22 or 3 px under it, at it, or 13 px over it
InitLanding ==
    /\ screenState = "intro"
    /\ state = NewGameState
    /\ levelText \in LandingLevels
    /\ level = parseLevel(levelText)
    /\ \E dx \in {0, Px(TILE_SIZE) \div 2}, dy \in {0 - Px(22), 0 - Px(3), 0, Px(13)} :
         player = NewPlayer(level.playerStart.x + dx, level.playerStart.y + dy)
    /\ input = NewInput
    /\ cameraY = 0
    /\ cameraTargetY = 0
    /\ highestY = 0
    /\ screenShakeTimer = 0
    /\ displayHeight \in DisplayHeights
    /\ introListener = TRUE
    /\ listeners = << >>
    /\ restarts = 0
    /\ last = [op |-> "new", before |-> player, input |-> NewInput, dt |-> 0,
               jumped |-> FALSE, held |-> FALSE, heldBefore |-> FALSE]

SpecLanding == InitLanding /\ [][CallUpdate]_vars

-----------------------------------------------------------------------------
(* The entity functions of src/src/entities.ts, called on decoded levels *)

\* the level texts: a moving platform beside a normal and a bouncy one; one
\* cannon; two cannons; a static enemy beside a walker
EntityLevels ==
    { << <<"P", ".", ".", ".", ".", ".">>,
         <<"~", "~", ".", ".", "#", "o">> >>,
      << <<"P", ".">>,
         <<"#", ">">> >>,
      << <<"P", ".", ".">>,
         <<">", "#", "<">> >>,
      << <<".", "S", "W">>,
         <<"P", ".", ".">>,
         <<"#", "#", "#">> >> }

\* the time steps, in ticks, between two calls of updateCannons: a frame, a
\* slow frame, a frame after the page was in the background
CannonElapsed == {MAX_DELTA_TICKS, 7 * MAX_DELTA_TICKS, FIRE_RATE_TICKS + MAX_DELTA_TICKS}

\* In a level with enemies the player is at one of a grid of places around
\* the first enemy: beside, under, inside and over it.  last.gaps is, for
\* every cannon, the time since its last shot (-1 before the first one, no
\* more than twice the fire rate)
InitEntities ==
    /\ screenState = "playing"
    /\ state = NewGameState
    /\ levelText \in EntityLevels
    /\ level = parseLevel(levelText)
    /\ IF Len(level.enemies) = 0
       THEN player = NewPlayer(level.playerStart.x, level.playerStart.y)
       ELSE \E dx \in {0 - 31, 0 - 25, 0 - 19, 0 - 12, 0 - 5, 0, 9, 15, 20, 39},
               dy \in {0 - 39, 0 - 20, 0, 15, 21, 23, 31, 45} :
               player = [NewPlayer(0, 0) EXCEPT !.x = level.enemies[1].x + Px(dx),
                                                !.y = level.enemies[1].y + Px(dy)]
    /\ input = NewInput
    /\ cameraY = 0
    /\ cameraTargetY = 0
    /\ highestY = 0
    /\ screenShakeTimer = 0
    /\ displayHeight \in DisplayHeights
    /\ introListener = FALSE
    /\ listeners = << >>
    /\ restarts = 0
    /\ last = [op |-> "new", before |-> level, playerBefore |-> player, dt |-> 0,
               result |-> [hit |-> FALSE, stomped |-> FALSE, enemy |-> 0],
               gapsBefore |-> [i \in 1..Len(level.cannons) |-> 0 - 1],
               gaps |-> [i \in 1..Len(level.cannons) |-> 0 - 1]]

\* updatePlatforms(this.level.platforms, deltaTime)
CallUpdatePlatforms ==
    \E dt \in {3, MAX_DELTA_TICKS} :
        /\ level' = [level EXCEPT !.platforms = updatePlatforms(@, dt)]
        /\ last' = [last EXCEPT !.op = "updatePlatforms", !.before = level, !.dt = dt]
        /\ UNCHANGED <<screenState, state, player, input, cameraY, cameraTargetY, highestY,
                       screenShakeTimer, displayHeight, introListener, listeners,
                       levelText, restarts>>

\* updateCannons(this.level.cannons, this.level.projectiles, performance.now()),
\* elapsed ticks after the previous call
CallUpdateCannons ==
    \E elapsed \in CannonElapsed :
        LET cannons == updateCannons(level.cannons, elapsed)
        IN  /\ Len(level.projectiles) + Cardinality(FiringCannons(elapsed)) <= MaxProjectiles
            /\ level' = [level EXCEPT
                   !.cannons = cannons,
                   !.projectiles = @ \o FiredProjectiles(level.cannons, elapsed, 1)]
            /\ last' = [last EXCEPT
                   !.op = "updateCannons", !.before = level, !.dt = elapsed,
                   !.gapsBefore = last.gaps,
                   !.gaps = [i \in 1..Len(cannons) |->
                                IF cannons[i].sinceFired = 0 THEN 0
                                ELSE IF last.gaps[i] < 0 THEN last.gaps[i]
                                ELSE Min(last.gaps[i] + elapsed, 2 * cannons[i].fireRate)]]
            /\ UNCHANGED <<screenState, state, player, input, cameraY, cameraTargetY,
                           highestY, screenShakeTimer, displayHeight, introListener,
                           listeners, levelText, restarts>>

\* the collisions of Game.update, lines 239-256, with the result of their
\* checkEnemyCollision call kept in last.result
CallCollisions ==
    /\ SetGame(CollisionStage(Game))
    /\ last' = [last EXCEPT
           !.op = "collisions", !.before = level, !.playerBefore = player,
           !.result = checkEnemyCollision(getBounds(player), level.enemies)]
    /\ UNCHANGED <<introListener, listeners, levelText, restarts>>

SpecEntities ==
    InitEntities /\ [][CallUpdatePlatforms \/ CallUpdateCannons \/ CallCollisions]_vars

-----------------------------------------------------------------------------
(* The input handler: events in any order between getState calls *)

\* last.signal is the jump signal as the events give it: on after a keydown
\* of a jump key or a press of the jump button, off after a keyup of a jump
\* key or a release of the button.  last.sampled is the signal at the last
\* getState call, last.previous the signal at the call before it;
\* last.since tells whether the signal was on at the last call and ever
\* since, and last.held whether it was on from the call before the last call
\* to the last call
InitInput ==
    /\ screenState = "intro"
    /\ state = NewGameState
    /\ player = NoPlayer
    /\ level = NoLevel
    /\ input = NewInput
    /\ cameraY = 0
    /\ cameraTargetY = 0
    /\ highestY = 0
    /\ screenShakeTimer = 0
    /\ displayHeight \in DisplayHeights
    /\ introListener = TRUE
    /\ listeners = << >>
    /\ levelText = << >>
    /\ restarts = 0
    /\ last = [op |-> "new", code |-> "", signal |-> FALSE, sampled |-> FALSE,
               previous |-> FALSE, since |-> FALSE, held |-> FALSE]

\* a keydown (the first one of a key or a repeat of a held key) or a keyup
KeyEvent ==
    \E type \in {"keydown", "keyup"},
       code \in {"Space", "ArrowUp", "KeyW", "ArrowLeft", "KeyD", "Enter"} :
        /\ input' = IF type = "keydown" THEN InputKeyDown(input, code)
                     ELSE InputKeyUp(input, code)
        /\ last' = [last EXCEPT
               !.op = type, !.code = code,
               !.signal = IF code \in {"Space", "ArrowUp", "KeyW"} THEN type = "keydown"
                          ELSE @,
               !.since = IF code \in {"Space", "ArrowUp", "KeyW"} THEN @ /\ type = "keydown"
                         ELSE @]
        /\ UNCHANGED <<screenState, state, player, level, cameraY, cameraTargetY, highestY,
                       screenShakeTimer, displayHeight, introListener, listeners, levelText,
                       restarts>>

\* a touch or mouse event on the jump button
ButtonEvent ==
    \E type \in {"touchstart", "touchend", "touchcancel", "mousedown", "mouseup",
                  "mouseleave"} :
        /\ input' = InputButton(input, type)
        /\ last' = [last EXCEPT
               !.op = type, !.code = "",
               !.signal = type \in {"touchstart", "mousedown"},
               !.since = @ /\ type \in {"touchstart", "mousedown"}]
        /\ UNCHANGED <<screenState, state, player, level, cameraY, cameraTargetY, highestY,
                       screenShakeTimer, displayHeight, introListener, listeners, levelText,
                       restarts>>

\* this.input.getState(), once per frame
CallGetState ==
    /\ input' = getState(input)
    /\ last' = [op |-> "getState", code |-> "", signal |-> last.signal,
                sampled |-> last.signal, previous |-> last.sampled,
                since |-> last.signal, held |-> last.since]
    /\ UNCHANGED <<screenState, state, player, level, cameraY, cameraTargetY, highestY,
                   screenShakeTimer, displayHeight, introListener, listeners, levelText,
                   restarts>>

SpecInput == InitInput /\ [][KeyEvent \/ ButtonEvent \/ CallGetState]_vars

-----------------------------------------------------------------------------
(* updateEnemies on decoded walkers and jumpers *)

\* a jumper is followed no farther than this many oscillation amplitudes from
\* the Y at which it was decoded
MaxDrift == 6

\* The levels: a walker in the cell over the middle of a platform of three
\* cells; a walker over the left end of a platform of six cells; a jumper in
\* column 0 and one in column 2, in the upper of two rows
InitEnemies ==
    /\ screenState = "playing"
    /\ state = NewGameState
    /\ levelText \in { << <<".", ".", "W", ".">>,
                           <<".", "#", "#", "#">> >>,
                        << <<"W", ".", ".", ".", ".", ".">>,
                           <<"#", "#", "#", "#", "#", "#">> >>,
                        << <<"J", ".", "J">>,
                           <<".", ".", ".">> >> }
    /\ level = parseLevel(levelText)
    /\ player = NewPlayer(level.playerStart.x, level.playerStart.y)
    /\ input = NewInput
    /\ cameraY = 0
    /\ cameraTargetY = 0
    /\ highestY = 0
    /\ screenShakeTimer = 0
    /\ displayHeight \in DisplayHeights
    /\ introListener = FALSE
    /\ listeners = << >>
    /\ restarts = 0
    /\ last = [op |-> "new", before |-> level, dt |-> 0]

\* updateEnemies(this.level.enemies, this.level.platforms, deltaTime) at any
\* time of the oscillation
CallUpdateEnemies ==
    \E dt \in {5, MAX_DELTA_TICKS}, wave \in Waves :
        LET enemies == updateEnemies(level.enemies, level.platforms, dt, wave)
        IN  /\ \A i \in 1..Len(enemies) :
                   Abs(enemies[i].y - enemies[i].startY) <= MaxDrift * Px(20)
            /\ level' = [level EXCEPT !.enemies = enemies]
            /\ last' = [op |-> "updateEnemies", before |-> level, dt |-> dt]
            /\ UNCHANGED <<screenState, state, player, input, cameraY, cameraTargetY,
                           highestY, screenShakeTimer, displayHeight, introListener,
                           listeners, levelText, restarts>>

SpecEnemies == InitEnemies /\ [][CallUpdateEnemies]_vars

-----------------------------------------------------------------------------
(* Properties *)

\* the rectangles a and b overlap in a region of positive area
Overlaps(a, b) ==
    /\ a.x < b.x + b.width
    /\ a.x + a.width > b.x
    /\ a.y < b.y + b.height
    /\ a.y + a.height > b.y

\* C1: every Game.playerHit on a player that is not invincible takes exactly
\* one life; while lives remain the screen state stays what it was, the
\* session is not over and Player.hit() has been applied (invincible for the
\* full duration, flash started, knockback); when no life remains gameOver is
\* set and the screen state is 'gameover'. From three lives the session is
\* over exactly when the lives are used up.
C1_PlayerHitTakesOneLife ==
    /\ state.lives <= 3
    /\ state.gameOver <=> state.lives <= 0
    /\ screenState = "gameover" => state.gameOver
    /\ \A i \in 1..Len(last.hits) :
         LET h == last.hits[i]
         IN  ~h.ignored =>
               /\ h.livesAfter = h.livesBefore - 1
               /\ h.livesAfter > 0 =>
                    /\ h.screenAfter = h.screenBefore
                    /\ h.screenBefore = "playing" => h.screenAfter = "playing"
                    /\ ~h.gameOverAfter
                    /\ h.playerAfter.isInvincible
                    /\ h.playerAfter.invincibilityTimer = INVINCIBILITY_DURATION * TicksPerSecond
                    /\ h.playerAfter.hitFlashTimer = HIT_FLASH_DURATION_TICKS
                    /\ h.playerAfter.velocityY = Vel(200)
               /\ h.livesAfter <= 0 =>
                    /\ h.gameOverAfter
                    /\ h.screenAfter = "gameover"

\* C1 happens: the third hit, on a player whose invincibility has fully
\* elapsed, takes the last life and ends the session
C1_ThirdHitEndsSession ==
    /\ screenState = "gameover"
    /\ state.lives = 0
    /\ \E i \in 1..Len(last.hits) :
         /\ ~last.hits[i].ignored
         /\ last.hits[i].livesBefore = 1
         /\ last.hits[i].playerBefore.invincibilityTimer = 0

\* C2: in 'playing', once the player is dead (fallen below the world floor)
\* and frames keep running, the player is eventually alive again or the
\* screen state becomes 'gameover'
C2_DeadPlayerRecoversOrGameOver ==
    (screenState = "playing" /\ ~player.isAlive)
        ~> (player.isAlive \/ screenState = "gameover")

\* C3: restart() runs only while the screen state is 'won' or 'gameover'
C3_RestartOnlyOnEndScreen ==
    \A i \in 1..Len(last.restarted) : last.restarted[i] \in {"won", "gameover"}

\* C4: the session becomes won (state.won set, or screen state 'won') only by
\* a simulated frame of a 'playing' session whose level has a portal that the
\* player's bounds strictly overlap at the end of the frame; with no portal
\* the session is never won
C4_WonOnlyByPortalOverlap ==
    [][ /\ (state'.won /\ ~state.won) \/ (screenState' = "won" /\ screenState # "won")
            => /\ screenState = "playing"
               /\ ~(state.gameOver \/ state.won \/ state.paused)
               /\ last'.op = "update" /\ last'.ran
               /\ state'.won
               /\ ~level'.portal.isNull
               /\ Overlaps(getBounds(player'), level'.portal)
        /\ level'.portal.isNull => ~state'.won /\ screenState' # "won"
      ]_vars

\* C4 happens: a frame has just ended the session as won
C4_WonByFrame ==
    /\ screenState = "won"
    /\ state.won
    /\ last.op = "update" /\ last.ran

\* C5: right after restart() the game state is the initial one, the level is
\* freshly decoded (every enemy alive at its start, every collectible
\* uncollected, no projectiles), the player is centred on playerStart, at
\* rest, alive, not invincible, both timers 0, the camera and its target are
\* the player's centre minus 40% of the display height, and the screen state
\* is 'playing'
C5_StateAfterRestart ==
    last.restarted # << >> =>
        /\ state = [score |-> 0, lives |-> 3, gameOver |-> FALSE, won |-> FALSE,
                    paused |-> FALSE]
        /\ \A i \in 1..Len(level.enemies) :
             /\ level.enemies[i].alive
             /\ level.enemies[i].x = level.enemies[i].startX
             /\ level.enemies[i].direction = 1
        /\ \A i \in 1..Len(level.collectibles) : ~level.collectibles[i].collected
        /\ level.projectiles = << >>
        /\ \A i \in 1..Len(level.cannons) : level.cannons[i].sinceFired = FIRE_RATE_TICKS
        /\ Len(level.platforms) > 0
        /\ 2 * player.x + player.width = 2 * level.playerStart.x
        /\ 2 * player.y + player.height = 2 * level.playerStart.y
        /\ player.velocityX = 0 /\ player.velocityY = 0
        /\ player.isAlive /\ ~player.isInvincible
        /\ player.invincibilityTimer = 0 /\ player.hitFlashTimer = 0
        /\ cameraY = cameraTargetY
        /\ 10 * cameraY = 10 * (player.y + player.height \div 2) - 4 * Px(displayHeight)
        /\ screenState = "playing"

\* C5 happens: restart() has just run on the game-over screen of the level
\* with the walker
C5_RestartedAfterGameOver ==
    /\ last.restarted = <<"gameover">>
    /\ Len(level.enemies) > 0

\* C6: a frame of Game.update that starts with the screen state not
\* 'playing', or with gameOver, won or paused set, changes nothing: player,
\* level, game state, camera, screen shake, screen state and the jump edge
\* latch of the input handler
C6_UpdateSkippedChangesNothing ==
    [][ GameLoop /\ (screenState # "playing" \/ state.gameOver \/ state.won \/ state.paused)
            => /\ UNCHANGED <<player, level, state, cameraY, cameraTargetY, highestY,
                              screenShakeTimer, screenState, input>>
               /\ ~last'.ran /\ last'.hits = << >>
      ]_vars

\* C6 happens: a frame has run on the game-over screen
C6_FrameOnGameOverScreen ==
    /\ screenState = "gameover"
    /\ last.op = "update" /\ ~last.ran

\* C7: Player.hit() on an invincible player changes no field of the player
C7_HitWhileInvincibleIsNoOp ==
    last.op = "hit" /\ last.before.isInvincible => player = last.before

\* C7 happens: hit() has been called inside an invincibility window that had
\* partly elapsed, after a knockback that gravity had already changed
C7_SecondHitInsideWindow ==
    /\ last.op = "hit"
    /\ last.before.isInvincible
    /\ last.before.invincibilityTimer < INVINCIBILITY_DURATION * TicksPerSecond
    /\ last.before.hitFlashTimer < HIT_FLASH_DURATION_TICKS
    /\ last.before.velocityY # Vel(200)

\* the player's bounds overlap a living enemy or an active projectile
InContact ==
    \/ \E i \in 1..Len(level.enemies) :
         level.enemies[i].alive /\ Overlaps(getBounds(player), level.enemies[i])
    \/ \E i \in 1..Len(level.projectiles) :
         level.projectiles[i].active /\ Overlaps(getBounds(player), level.projectiles[i])

\* C8: a frame whose collisions are evaluated on an invincible player takes
\* no life, does not change the screen state other than by winning, makes no
\* effective playerHit call, and leaves every living enemy alive and every
\* projectile that overlaps the player active
C8_InvincibleIgnoresContact ==
    [][ last'.op = "update" /\ last'.ran /\ last'.shielded
            => /\ state'.lives = state.lives
               /\ screenState' = screenState \/ (screenState' = "won" /\ state'.won)
               /\ ~state'.gameOver
               /\ \A i \in 1..Len(last'.hits) : last'.hits[i].ignored
               /\ \A i \in 1..Len(level.enemies) :
                    level.enemies[i].alive => level'.enemies[i].alive
               /\ \A i \in 1..Len(level'.projectiles) :
                    /\ i <= Len(level.projectiles) => level.projectiles[i].active
                    /\ Overlaps(getBounds(player'), level'.projectiles[i])
                    /\ level'.projectiles[i].x + level'.projectiles[i].width >= 0
                    /\ level'.projectiles[i].x <= level'.levelWidth
                    => level'.projectiles[i].active
      ]_vars

\* C8 happens: a frame has evaluated its collisions on an invincible player
\* who overlaps a living enemy or an active projectile
C8_ContactWhileInvincible ==
    /\ last.op = "update" /\ last.ran /\ last.shielded
    /\ InContact

\* C9: Player.update jumps only in a frame that starts with jump,
\* jumpPressed, canJump and isOnGround all true, never while the jump signal
\* has been held in every frame since the previous jump; and canJump is false
\* for as long as the signal stays held after a jump
C9_JumpLatch ==
    /\ last.op = "update" /\ last.jumped =>
         /\ last.input.jump /\ last.input.jumpPressed
         /\ last.before.canJump /\ last.before.isOnGround
         /\ ~last.heldBefore
         /\ ~player.canJump
    /\ last.held => ~player.canJump

\* C9 happens: the player is back on the ground with the signal held ever
\* since its jump, is given jump and jumpPressed, and does not jump
C9_LandedWhileHeld ==
    /\ last.op = "update"
    /\ last.heldBefore
    /\ last.before.isOnGround
    /\ last.input.jump /\ last.input.jumpPressed
    /\ ~last.jumped

\* the player p is at rest on a platform
AtRest(p) == p.isAlive /\ p.isOnGround /\ p.canJump /\ p.velocityY = 0

\* C10 as stated: the jump frame of a player at rest ends with velocityY
\* equal to JUMP_FORCE and isOnGround false, for every deltaTime
C10_JumpFrameKeepsJumpForce ==
    /\ last.op = "update"
    /\ AtRest(last.before)
    /\ last.input.jump /\ last.input.jumpPressed
    => /\ player.velocityY = Vel(JUMP_FORCE)
       /\ ~player.isOnGround

\* C10: the jump frame of a player at rest ends with velocityY equal to
\* JUMP_FORCE less the gravity of that frame (GRAVITY * deltaTime) and
\* isOnGround false, for every deltaTime
C10_JumpFrameVelocity ==
    /\ last.op = "update"
    /\ AtRest(last.before)
    /\ last.input.jump /\ last.input.jumpPressed
    => /\ player.velocityY = Vel(JUMP_FORCE) - (GRAVITY * last.dt * VelocityScale) \div TicksPerSecond
       /\ player.velocityY < Vel(JUMP_FORCE)
       /\ player.velocityY > 0
       /\ ~player.isOnGround
       /\ ~player.canJump

\* C10 happens: a player at rest has been given jump and jumpPressed in a
\* frame shorter than the longest one
C10_JumpFromRest ==
    /\ last.op = "update"
    /\ AtRest(last.before)
    /\ last.input.jump /\ last.input.jumpPressed
    /\ last.dt < MAX_DELTA_TICKS


\* the vertical velocity of the updated player at the collision step of the
\* last Player.update: after the jump, gravity and the fall clamp
VelocityAtLanding ==
    LET v0 == IF last.jumped THEN Vel(JUMP_FORCE) ELSE last.before.velocityY
        v1 == v0 - (GRAVITY * last.dt * VelocityScale) \div TicksPerSecond
    IN  IF v1 < 0 - Vel(MAX_FALL_SPEED) THEN 0 - Vel(MAX_FALL_SPEED) ELSE v1

\* the bottom edge of the player at the collision step of the last update
BottomAtLanding == last.before.y + VelocityAtLanding * last.dt

\* the platform's landing zone holds the player at the collision step: the
\* boxes overlap horizontally, the player's bottom is at most 10 px under the
\* platform's bottom edge and not over its top, the player's top is over it
InLandingZone(platform) ==
    /\ player.x < platform.x + platform.width
    /\ platform.x < player.x + player.width
    /\ platform.y - Px(10) <= BottomAtLanding
    /\ BottomAtLanding <= platform.y + platform.height
    /\ BottomAtLanding + player.height > platform.y + platform.height

\* the platforms of the list, by index, in whose landing zone the player is
LandingCandidates ==
    {i \in 1..Len(AllPlatforms(level)) : InLandingZone(AllPlatforms(level)[i])}

\* C11: a Player.update whose vertical velocity at the collision step is not
\* negative lands on nothing: the position is the integrated one, the velocity
\* is kept, isOnGround is false and currentPlatform is null
C11_RisingNeverLands ==
    (last.op = "update" /\ last.before.isAlive /\ VelocityAtLanding >= 0)
        => /\ player.y = BottomAtLanding
           /\ player.velocityY = VelocityAtLanding
           /\ ~player.isOnGround
           /\ player.currentPlatform.isNull

\* C11 happens: a rising player is in the landing zone of a platform
C11_RisingInLandingZone ==
    /\ last.op = "update" /\ last.before.isAlive
    /\ VelocityAtLanding > 0
    /\ LandingCandidates # {}

\* C12: a falling player in the landing zone of some platform is put on the
\* top of the first such platform of the list; a bouncy one throws it up with
\* the bounce force, off the ground and with no current platform; any other
\* one stops it, grounds it and becomes the current platform
C12_LandsOnFirstMatch ==
    (last.op = "update" /\ last.before.isAlive /\ VelocityAtLanding < 0
        /\ LandingCandidates # {})
        => LET i == CHOOSE i \in LandingCandidates : \A j \in LandingCandidates : i <= j
               platform == AllPlatforms(level)[i]
           IN  /\ player.y = platform.y + platform.height
               /\ player.isAlive
               /\ IF platform.type = "bouncy"
                  THEN /\ player.velocityY = Vel(BOUNCE_FORCE)
                       /\ ~player.isOnGround
                       /\ player.currentPlatform.isNull
                  ELSE /\ player.velocityY = 0
                       /\ player.isOnGround
                       /\ ~player.currentPlatform.isNull
                       /\ player.currentPlatform.id = platform.id
                       /\ player.currentPlatform.type = platform.type

\* C12 happens: a falling player is in the landing zone of a bouncy platform
\* and of a later platform of the list
C12_TwoMatchesBouncyFirst ==
    /\ last.op = "update" /\ last.before.isAlive
    /\ VelocityAtLanding < 0
    /\ \E i, j \in LandingCandidates :
          /\ i < j
          /\ \A k \in LandingCandidates : i <= k
          /\ AllPlatforms(level)[i].type = "bouncy"
          /\ AllPlatforms(level)[j].type # "bouncy"

\* the enemy returned by the last checkEnemyCollision call, as it was given
ReturnedEnemy == last.before.enemies[last.result.enemy]

\* distance of the horizontal centres of the player and the returned enemy
CentreDistance ==
    Abs((last.playerBefore.x + last.playerBefore.width \div 2)
        - (ReturnedEnemy.x + ReturnedEnemy.width \div 2))

\* the player's bottom edge is over the returned enemy's top edge, or under
\* it by less than the tolerance of 10 px
BottomAboveTop ==
    last.playerBefore.y > ReturnedEnemy.y + ReturnedEnemy.height - Px(10)

\* checkEnemyCollision returned a living enemy that intersects the player
EnemyReturned ==
    /\ last.op = "collisions"
    /\ last.result.enemy # 0
    /\ ReturnedEnemy.alive
    /\ Overlaps(getBounds(last.playerBefore), ReturnedEnemy)

\* C13, as stated: with the player's bottom above the enemy's top within the
\* tolerance, stomped is true exactly when the centres are closer than 60% of
\* half the enemy's width
C13_StompBandHalfWidth ==
    (EnemyReturned /\ BottomAboveTop)
        => (last.result.stomped <=> 10 * CentreDistance < 3 * ReturnedEnemy.width)

\* C13, amended: with the player's bottom above the enemy's top within the
\* tolerance, stomped is true exactly when the centres are closer than 60% of
\* the enemy's width
C13_StompBandWidth ==
    (EnemyReturned /\ BottomAboveTop)
        => /\ last.result.hit
           /\ last.result.stomped <=> 10 * CentreDistance < 6 * ReturnedEnemy.width

\* C13 happens: a contact from above with the centres between 30% and 60% of
\* the enemy's width apart
C13_AboveBetweenBands ==
    /\ EnemyReturned /\ BottomAboveTop
    /\ 10 * CentreDistance >= 3 * ReturnedEnemy.width
    /\ 10 * CentreDistance < 6 * ReturnedEnemy.width

\* C14: a contact in which the player's bottom edge is under the enemy's top
\* edge by more than the tolerance is a hit and no stomp, and the enemy is
\* alive after the collisions of the frame
C14_ContactNotFromAboveIsHit ==
    (EnemyReturned /\ last.playerBefore.y < ReturnedEnemy.y + ReturnedEnemy.height - Px(10))
        => /\ last.result.hit
           /\ ~last.result.stomped
           /\ level.enemies[last.result.enemy].alive

\* the platform i of the last updatePlatforms call overshot its upper bound,
\* its lower bound
OvershotUpper(i) ==
    LET before == last.before.platforms[i]
    IN  before.x + before.moveSpeed * last.dt > before.startX + before.moveRange

OvershotLower(i) ==
    LET before == last.before.platforms[i]
    IN  before.x + before.moveSpeed * last.dt < before.startX

\* C18: after updatePlatforms a moving platform is inside its range, moves
\* left after a clamp to the upper bound and right after a clamp to the lower
\* bound; a platform of another kind is as it was
C18_PlatformStaysInRange ==
    last.op = "updatePlatforms"
        => \A i \in 1..Len(level.platforms) :
              LET platform == level.platforms[i]
              IN  IF platform.type = "moving"
                  THEN /\ platform.startX <= platform.x
                       /\ platform.x <= platform.startX + platform.moveRange
                       /\ OvershotUpper(i) => (platform.moveSpeed < 0
                                               /\ platform.x = platform.startX + platform.moveRange)
                       /\ OvershotLower(i) => (platform.moveSpeed > 0
                                               /\ platform.x = platform.startX)
                  ELSE platform = last.before.platforms[i]

\* C18 happens: a moving platform overshot its upper bound in the call, and
\* the level has a platform of another kind
C18_OvershotUpperBound ==
    /\ last.op = "updatePlatforms"
    /\ \E i \in 1..Len(level.platforms) :
          level.platforms[i].type = "moving" /\ OvershotUpper(i)
    /\ \E i \in 1..Len(level.platforms) : level.platforms[i].type # "moving"

\* the projectiles pushed by the last updateCannons call that are at the
\* muzzle of cannon i and fly in its direction
PushedBy(i) ==
    LET cannon == last.before.cannons[i]
    IN  {k \in (Len(last.before.projectiles) + 1)..Len(level.projectiles) :
            /\ level.projectiles[k].active
            /\ level.projectiles[k].x = (IF cannon.direction = 1 THEN cannon.x + cannon.width
                                         ELSE cannon.x - level.projectiles[k].width)
            /\ level.projectiles[k].y >= cannon.y
            /\ level.projectiles[k].y + level.projectiles[k].height
                   <= cannon.y + cannon.height
            /\ level.projectiles[k].velocityY = 0
            /\ level.projectiles[k].velocityX * cannon.direction > 0}

\* C19: updateCannons pushes one projectile for a cannon whose last shot is
\* at least fireRate old and restarts its clock, pushes none for the others
\* and lets their clocks run; a cannon that has fired before fires again no
\* sooner than fireRate after that shot
C19_OneShotPerFireRate ==
    last.op = "updateCannons"
        => /\ \A i \in 1..Len(level.cannons) :
                 LET before == last.before.cannons[i]
                     due == before.sinceFired + last.dt >= before.fireRate
                 IN  /\ Cardinality(PushedBy(i)) = (IF due THEN 1 ELSE 0)
                     /\ (level.cannons[i].sinceFired = 0) <=> due
                     /\ (due /\ last.gapsBefore[i] >= 0)
                            => last.gapsBefore[i] + last.dt >= before.fireRate
           /\ Len(level.projectiles) - Len(last.before.projectiles)
                  = Cardinality({i \in 1..Len(level.cannons) : PushedBy(i) # {}})

\* C19 happens: a cannon that has fired before fires again, and another call
\* came too early for it
C19_SecondShot ==
    /\ last.op = "updateCannons"
    /\ \E i \in 1..Len(level.cannons) : last.gapsBefore[i] >= 0 /\ PushedBy(i) # {}

\* a step inside a session: a frame, or an event that neither starts nor
\* restarts the game
SessionStep == last'.op = "update"

\* the step is a frame that Game.update simulated (an event changes none of
\* the player, the level, the session state and the log of the last frame)
SimulatedFrame ==
    /\ last'.op = "update" /\ last'.ran
    /\ <<player, level, state, last>>' # <<player, level, state, last>>

\* the reward of a collectible
RewardOf(collectible) ==
    CASE collectible.type = "coin" -> 10
      [] collectible.type = "star" -> 50
      [] collectible.type = "powerup" -> 100

\* the collectibles, by index, that the step marks collected
PickedUp ==
    {i \in 1..Len(level.collectibles) :
        ~level.collectibles[i].collected /\ level'.collectibles[i].collected}

\* the enemies, by index, that the step kills
Killed ==
    {i \in 1..Len(level.enemies) : level.enemies[i].alive /\ ~level'.enemies[i].alive}

\* the bonus of the step for a new highest point: one per whole tile
HeightBonus == IF highestY' > highestY THEN (highestY' - highestY) \div Px(TILE_SIZE) ELSE 0

\* C15: in a session a collected collectible stays collected; a step collects
\* at most one, and then the first of the list that is not collected and
\* intersects the player; a frame collects one when there is such a
\* collectible; the score grows by the reward of what was collected (and by
\* 100 per enemy killed and the height bonus) and by nothing else
C15_CollectibleOneShot ==
    [][SessionStep =>
          /\ Len(level'.collectibles) = Len(level.collectibles)
          /\ \A i \in 1..Len(level.collectibles) :
                /\ level.collectibles[i].collected => level'.collectibles[i] = level.collectibles[i]
                /\ i \in PickedUp =>
                      /\ Overlaps(getBounds(player'), level.collectibles[i])
                      /\ \A j \in 1..(i - 1) :
                            level.collectibles[j].collected
                            \/ ~Overlaps(getBounds(player'), level.collectibles[j])
          /\ Cardinality(PickedUp) <= 1
          /\ (SimulatedFrame /\ \E i \in 1..Len(level.collectibles) :
                                   /\ ~level.collectibles[i].collected
                                   /\ Overlaps(getBounds(player'), level.collectibles[i]))
                => PickedUp # {}
          /\ state'.score = state.score + HeightBonus + 100 * Cardinality(Killed)
                            + (IF PickedUp = {} THEN 0
                               ELSE RewardOf(level.collectibles[CHOOSE i \in PickedUp : TRUE]))
      ]_vars

\* C15 happens: after a frame the player intersects a collected star and a
\* coin that is not collected, and the score is the reward of the star
C15_StarTakenCoinLeft ==
    /\ last.op = "update" /\ last.ran
    /\ state.score = 50
    /\ \E i, j \in 1..Len(level.collectibles) :
          /\ i < j
          /\ level.collectibles[i].type = "star" /\ level.collectibles[i].collected
          /\ level.collectibles[j].type = "coin" /\ ~level.collectibles[j].collected
          /\ Overlaps(getBounds(player), level.collectibles[i])
          /\ Overlaps(getBounds(player), level.collectibles[j])

\* C16: in a session the number of enemies is constant and an enemy that is
\* not alive is never changed; a frame in which the player touches no
\* projectile and no enemy that was alive kills nothing and calls no playerHit
\* (unless the player is dead)
C16_DeadEnemyStaysDead ==
    [][SessionStep =>
          /\ Len(level'.enemies) = Len(level.enemies)
          /\ \A i \in 1..Len(level.enemies) :
                ~level.enemies[i].alive => level'.enemies[i] = level.enemies[i]
          /\ (/\ SimulatedFrame
              /\ player'.isAlive
              /\ \A i \in 1..Len(level.enemies) :
                    Overlaps(getBounds(player'), level'.enemies[i]) => ~level.enemies[i].alive
              /\ \A k \in 1..Len(level'.projectiles) :
                    ~Overlaps(getBounds(player'), level'.projectiles[k]))
                => (last'.hits = << >> /\ Killed = {})
      ]_vars

\* C16 happens: after a frame the player, not invincible, is inside a walker
\* that is not alive
C16_PlayerInsideDeadWalker ==
    /\ last.op = "update" /\ last.ran
    /\ player.isAlive /\ ~player.isInvincible
    /\ \E i \in 1..Len(level.enemies) :
          /\ level.enemies[i].type = "walker"
          /\ ~level.enemies[i].alive
          /\ Overlaps(getBounds(player), level.enemies[i])

\* C17: in a session no projectile leaves the list and an inactive one is
\* never changed; a projectile becomes inactive only out of the range
\* [-100, levelWidth + 100] or as the first active one that intersects the
\* player, whose collisions were not shielded by invincibility; a frame in
\* which the player touches no enemy and only projectiles that were inactive
\* calls no playerHit (unless the player is dead)
C17_ProjectileOnlyDeactivates ==
    [][SessionStep =>
          /\ Len(level'.projectiles) >= Len(level.projectiles)
          /\ \A i \in 1..Len(level.projectiles) :
                /\ ~level.projectiles[i].active
                      => level'.projectiles[i] = level.projectiles[i]
                /\ (level.projectiles[i].active /\ ~level'.projectiles[i].active)
                      => \/ level'.projectiles[i].x < 0 - Px(100)
                         \/ level'.projectiles[i].x > level.levelWidth + Px(100)
                         \/ /\ Overlaps(getBounds(player'), level'.projectiles[i])
                            /\ ~last'.shielded
                            /\ \A j \in 1..(i - 1) :
                                  ~(/\ level.projectiles[j].active
                                    /\ level'.projectiles[j].x >= 0 - Px(100)
                                    /\ level'.projectiles[j].x <= level.levelWidth + Px(100)
                                    /\ Overlaps(getBounds(player'), level'.projectiles[j]))
          /\ (/\ SimulatedFrame
              /\ player'.isAlive
              /\ \A i \in 1..Len(level'.enemies) :
                    ~Overlaps(getBounds(player'), level'.enemies[i])
              /\ \A k \in 1..Len(level'.projectiles) :
                    Overlaps(getBounds(player'), level'.projectiles[k])
                        => (k <= Len(level.projectiles) /\ ~level.projectiles[k].active))
                => last'.hits = << >>
      ]_vars

\* C17 happens: after a frame the player, not invincible, is inside an
\* inactive projectile
C17_PlayerInsideInactiveProjectile ==
    /\ last.op = "update" /\ last.ran
    /\ player.isAlive /\ ~player.isInvincible
    /\ \E k \in 1..Len(level.projectiles) :
          /\ ~level.projectiles[k].active
          /\ Overlaps(getBounds(player), level.projectiles[k])

\* idealCameraY for a player: its centre minus four tenths of the display
IdealCameraY(p) == p.y + p.height \div 2 - (4 * Px(displayHeight)) \div 10

\* C20: a frame that Game.update simulated and that ends with idealCameraY
\* over the camera target it began with makes idealCameraY the target (after
\* a frame the target is never under idealCameraY, so an event that follows
\* it is no such step)
C20_TargetFollowsClimb ==
    [][(last'.op = "update" /\ last'.ran /\ IdealCameraY(player') > cameraTargetY)
          => cameraTargetY' = IdealCameraY(player')]_vars

\* C20 happens: after a frame of a rising player the target is idealCameraY
\* and the camera is still under it
C20_TargetAheadOfCamera ==
    /\ last.op = "update" /\ last.ran
    /\ player.velocityY > 0
    /\ cameraTargetY = IdealCameraY(player)
    /\ cameraY < cameraTargetY

\* C21: a frame that Game.update simulated and that ends with idealCameraY at
\* most half a display under the target it began with, and not over it,
\* leaves the target; one that ends with idealCameraY further down puts the
\* target three tenths of a display over idealCameraY, under the old target
\* (after a frame idealCameraY is never more than half a display under the
\* target, so an event that follows it changes nothing here)
C21_TargetHysteresis ==
    [][(last'.op = "update" /\ last'.ran)
          => LET ideal == IdealCameraY(player')
                 half == Px(displayHeight) \div 2
             IN  /\ (cameraTargetY - half <= ideal /\ ideal <= cameraTargetY)
                       => cameraTargetY' = cameraTargetY
                 /\ ideal < cameraTargetY - half
                       => /\ cameraTargetY' = ideal + (3 * Px(displayHeight)) \div 10
                          /\ cameraTargetY' < cameraTargetY]_vars

\* C21 happens: the target is three tenths of a display over idealCameraY
\* after a frame of a falling player
C21_TargetPulledDown ==
    /\ last.op = "update" /\ last.ran
    /\ player.velocityY < 0
    /\ cameraTargetY = IdealCameraY(player) + (3 * Px(displayHeight)) \div 10

\* C22: update gets the gap since the previous callback, and 0.1 s when the
\* gap is longer; a frame applies it once: a player in free fall before and
\* after the frame has lost GRAVITY times that deltaTime of vertical
\* velocity, down to the fall clamp, and has moved by the new velocity
\* times that deltaTime
C22_DeltaTimeClamped ==
    (last.op = "update" /\ last.ran)
        => LET deltaTime == IF last.elapsed < TicksPerSecond \div 10 THEN last.elapsed
                            ELSE TicksPerSecond \div 10
               fallen == last.before.velocityY
                         - (GRAVITY * deltaTime * VelocityScale) \div TicksPerSecond
               v == IF fallen < 0 - Vel(MAX_FALL_SPEED) THEN 0 - Vel(MAX_FALL_SPEED) ELSE fallen
           IN  /\ last.deltaTime = deltaTime
               /\ (last.before.isAlive /\ player.isAlive /\ last.hits = << >>)
                     => (player.velocityY = v /\ player.y = last.before.y + v * deltaTime)

\* C22 happens: a frame of a falling player came more than 0.1 s after the
\* previous callback
C22_FrameAfterStall ==
    /\ last.op = "update" /\ last.ran
    /\ last.elapsed > TicksPerSecond \div 10
    /\ last.before.isAlive /\ player.isAlive
    /\ last.before.velocityY < 0

\* the platform kind of the glyph at line r, place c (both from 1) of lines,
\* "none" for any other glyph
CellKind(lines, r, c) ==
    LET tileType == TileTypeOf(lines[r][c])
    IN  IF tileType \in DOMAIN PlatformTypeOf THEN PlatformTypeOf[tileType] ELSE "none"

\* the maximal runs of lines: <<r, a, b>> when places a..b of line r are
\* platform cells of one kind and the cells before a and after b are not of
\* that kind
MaximalRuns(lines) ==
    {run \in UNION {{<<r, a, b>> : a \in 1..Len(lines[r]), b \in 1..Len(lines[r])} :
                       r \in 1..Len(lines)} :
        LET r == run[1]
            a == run[2]
            b == run[3]
            kind == CellKind(lines, r, a)
        IN  /\ a <= b
            /\ kind # "none"
            /\ \A c \in a..b : CellKind(lines, r, c) = kind
            /\ a = 1 \/ CellKind(lines, r, a - 1) # kind
            /\ b = Len(lines[r]) \/ CellKind(lines, r, b + 1) # kind}

\* C23: the platforms parseLevel emits are, one for one, the maximal runs of
\* horizontally consecutive platform cells of one kind in the lines of the
\* text: each starts at its run's first column times TILE_SIZE, is as wide
\* as the run has cells (at least one tile) and has the run's kind, and every
\* platform cell lies in exactly one platform
C23_OnePlatformPerRun ==
    last.op = "parseLevel"
        => LET lines == TextLines(last.text)
               runs == MaximalRuns(lines)
               Emitted(run) ==
                   {i \in 1..Len(level.platforms) :
                       /\ level.platforms[i].x = (run[2] - 1) * TILE_SIZE * U
                       /\ level.platforms[i].y = (Len(lines) - run[1]) * TILE_SIZE * U
                       /\ level.platforms[i].width = (run[3] - run[2] + 1) * TILE_SIZE * U
                       /\ level.platforms[i].width >= TILE_SIZE * U
                       /\ level.platforms[i].type = CellKind(lines, run[1], run[2])}
           IN  /\ Len(level.platforms) = Cardinality(runs)
               /\ \A run \in runs : Cardinality(Emitted(run)) = 1
               /\ \A r \in 1..Len(lines) : \A c \in 1..Len(lines[r]) :
                      CellKind(lines, r, c) # "none"
                          => Cardinality({i \in 1..Len(level.platforms) :
                                 /\ level.platforms[i].y = (Len(lines) - r) * TILE_SIZE * U
                                 /\ level.platforms[i].x <= (c - 1) * TILE_SIZE * U
                                 /\ c * TILE_SIZE * U
                                        <= level.platforms[i].x + level.platforms[i].width}) = 1

\* C23 happens: three platform cells, an empty cell and two platform cells
\* were decoded to a platform over columns 0-2 and one over columns 4-5
C23_ThreeGapTwo ==
    /\ last.op = "parseLevel"
    /\ last.text = <<"#", "#", "#", ".", "#", "#">>
    /\ Len(level.platforms) = 2
    /\ level.platforms[1].x = 0 /\ level.platforms[1].width = 3 * TILE_SIZE * U
    /\ level.platforms[2].x = 4 * TILE_SIZE * U
    /\ level.platforms[2].width = 2 * TILE_SIZE * U

\* the grid of a level text: its lines, without the line feeds that frame the
\* text; every other character, a space or a tab too, is a cell
GridLines(text) ==
    LET cells == {i \in 1..Len(text) : text[i] # "\n"}
    IN  IF cells = {} THEN << << >> >>
        ELSE LET first == CHOOSE i \in cells : \A j \in cells : i <= j
                 final == CHOOSE i \in cells : \A j \in cells : j <= i
                 feeds == {i \in first..final : text[i] = "\n"}
                 Feed(k) == CHOOSE i \in feeds : Cardinality({j \in feeds : j < i}) = k - 1
             IN  [k \in 1..(Cardinality(feeds) + 1) |->
                    SubSeq(text, IF k = 1 THEN first ELSE Feed(k - 1) + 1,
                                 IF k = Cardinality(feeds) + 1 THEN final ELSE Feed(k) - 1)]

\* the world positions of the cells of grid that hold glyph: column times
\* TILE_SIZE, and rows from the bottom times TILE_SIZE
WorldCells(grid, glyph) ==
    UNION {{<<(c - 1) * TILE_SIZE * U, (Len(grid) - r) * TILE_SIZE * U>> :
               c \in {c \in 1..Len(grid[r]) : grid[r][c] = glyph}} : r \in 1..Len(grid)}

\* C24: the glyph at row r (0 the top line) and column c of the text is
\* decoded at x = c * TILE_SIZE and y = (rowCount - 1 - r) * TILE_SIZE, the
\* level is as wide as the longest line has cells and as high as the text has
\* lines; stated for the walkers and the cannons of the text
C24_CellToWorld ==
    last.op = "parseLevel"
        => LET grid == GridLines(last.text)
               longest == CHOOSE n \in {Len(grid[r]) : r \in 1..Len(grid)} :
                              \A r \in 1..Len(grid) : Len(grid[r]) <= n
           IN  /\ {<<level.enemies[i].x, level.enemies[i].y>> : i \in 1..Len(level.enemies)}
                     = WorldCells(grid, "W")
               /\ {<<level.cannons[i].x, level.cannons[i].y>> : i \in 1..Len(level.cannons)}
                     = WorldCells(grid, ">")
               /\ level.levelWidth = longest * TILE_SIZE * U
               /\ level.levelHeight = Len(grid) * TILE_SIZE * U

\* C24 on the texts that neither begin nor end with white space
C24_CellToWorldInked ==
    (/\ last.op = "parseLevel"
     /\ Len(last.text) > 0
     /\ last.text[1] \notin {" ", "\t", "\n"}
     /\ last.text[Len(last.text)] \notin {" ", "\t", "\n"})
        => C24_CellToWorld

\* box is square with the given side and its centre is the centre of a cell
CentredSquare(box, side) ==
    /\ box.width = side /\ box.height = side
    /\ (box.x + side \div 2) % (TILE_SIZE * U) = (TILE_SIZE * U) \div 2
    /\ (box.y + side \div 2) % (TILE_SIZE * U) = (TILE_SIZE * U) \div 2

\* box is square with the given side and its corner is the origin of a cell
SquareAtOrigin(box, side) ==
    /\ box.width = side /\ box.height = side
    /\ box.x % (TILE_SIZE * U) = 0
    /\ box.y % (TILE_SIZE * U) = 0

\* C25 as stated: every enemy and every collectible is 80% of a tile wide and
\* high and centred in its cell, every cannon is one tile at the cell origin
\* and the portal is two tiles wide and high
C25_EightyPercentCentred ==
    last.op = "parseLevel"
        => /\ \A i \in 1..Len(level.enemies) :
                  CentredSquare(level.enemies[i], (TILE_SIZE * U * 8) \div 10)
           /\ \A i \in 1..Len(level.collectibles) :
                  CentredSquare(level.collectibles[i], (TILE_SIZE * U * 8) \div 10)
           /\ \A i \in 1..Len(level.cannons) : SquareAtOrigin(level.cannons[i], TILE_SIZE * U)
           /\ ~level.portal.isNull => SquareAtOrigin(level.portal, 2 * TILE_SIZE * U)

\* C25: every enemy is 80% of a tile wide and high with its corner at the
\* cell origin, every collectible is 50% of a tile wide and high and centred
\* in its cell, every cannon is one tile at the cell origin and the portal is
\* two tiles wide and high at the cell origin; each stands in the cell of its
\* glyph
C25_DefaultSizes ==
    last.op = "parseLevel"
        => LET lines == TextLines(last.text)
               Origins(boxes, offset) ==
                   {<<boxes[i].x - offset, boxes[i].y - offset>> : i \in 1..Len(boxes)}
           IN  /\ \A i \in 1..Len(level.enemies) :
                      SquareAtOrigin(level.enemies[i], (TILE_SIZE * U * 8) \div 10)
               /\ \A i \in 1..Len(level.collectibles) :
                      CentredSquare(level.collectibles[i], (TILE_SIZE * U) \div 2)
               /\ \A i \in 1..Len(level.cannons) :
                      SquareAtOrigin(level.cannons[i], TILE_SIZE * U)
               /\ ~level.portal.isNull => SquareAtOrigin(level.portal, 2 * TILE_SIZE * U)
               /\ Origins(level.enemies, 0) = WorldCells(lines, "W")
               /\ Origins(level.collectibles, (TILE_SIZE * U) \div 4) = WorldCells(lines, "*")
               /\ Origins(level.cannons, 0) = WorldCells(lines, ">")
               /\ level.portal.isNull <=> WorldCells(lines, "O") = {}
               /\ ~level.portal.isNull
                     => <<level.portal.x, level.portal.y>> \in WorldCells(lines, "O")

\* C25 happens: a walker, a star, a cannon and the portal were decoded
C25_OneOfEach ==
    /\ last.op = "parseLevel"
    /\ Len(level.enemies) = 1 /\ Len(level.collectibles) = 1 /\ Len(level.cannons) = 1
    /\ ~level.portal.isNull

\* text with "." in the place of every glyph of glyphs that the glyph table
\* does not have; the line feed separates lines and is no glyph
WithoutUnmapped(text, glyphs) ==
    [i \in 1..Len(text) |->
        IF text[i] \in glyphs /\ text[i] # "\n" /\ TileTypeOf(text[i]) = "undefined"
        THEN "." ELSE text[i]]

\* C26: a glyph that the glyph table does not have is decoded like the empty
\* cell '.': the text with '.' in the place of every unmapped glyph decodes
\* to the same level
C26_UnmappedIsEmpty ==
    last.op = "parseLevel"
        => level = parseLevel(TextLines(WithoutUnmapped(last.text, {"?", "\t"})))

\* C26 for the unmapped glyph that is no white space
C26_UnmappedInkIsEmpty ==
    last.op = "parseLevel"
        => level = parseLevel(TextLines(WithoutUnmapped(last.text, {"?"})))

\* the walkers of the level that are alive
LivingWalkers ==
    {i \in 1..Len(level.enemies) : level.enemies[i].alive /\ level.enemies[i].type = "walker"}

\* where the walker i would be after the last updateEnemies call without the
\* clamp
UnclampedX(i) ==
    LET before == last.before.enemies[i]
    IN  before.x + before.velocityX * before.direction * last.dt

\* C27: after updateEnemies every living walker is within patrolRange of its
\* startX and its direction is 1 or -1; when the step of the call would have
\* taken it out of that interval, its direction is the reverse of the one
\* before the call
C27_WalkerInPatrolRange ==
    last.op = "updateEnemies"
        => \A i \in LivingWalkers :
              LET walker == level.enemies[i]
              IN  /\ walker.startX - walker.patrolRange <= walker.x
                  /\ walker.x <= walker.startX + walker.patrolRange
                  /\ walker.direction \in {1, 0 - 1}
                  /\ (\/ UnclampedX(i) > walker.startX + walker.patrolRange
                      \/ UnclampedX(i) < walker.startX - walker.patrolRange)
                        => walker.direction = 0 - last.before.enemies[i].direction

\* C27 happens: the step of the last call would have taken a walker past the
\* upper end of its patrol, and it stands at that end, turned left
C27_TurnedAtUpperEnd ==
    /\ last.op = "updateEnemies"
    /\ \E i \in LivingWalkers :
           /\ UnclampedX(i) > level.enemies[i].startX + level.enemies[i].patrolRange
           /\ level.enemies[i].x = level.enemies[i].startX + level.enemies[i].patrolRange
           /\ level.enemies[i].direction = 0 - 1

\* the platforms under the cell in which the walker i was decoded: in the row
\* below, over the column of the walker
PlatformsBeneath(i) ==
    {j \in 1..Len(level.platforms) :
        /\ level.platforms[j].y = level.enemies[i].startY - TILE_SIZE * U
        /\ level.platforms[j].x <= level.enemies[i].startX
        /\ level.enemies[i].startX < level.platforms[j].x + level.platforms[j].width}

\* C28: a walker decoded in the cell over a platform cell never stands with
\* its whole width beside that platform
C28_WalkerStaysOverPlatform ==
    \A i \in LivingWalkers : \A j \in PlatformsBeneath(i) :
        /\ level.enemies[i].x < level.platforms[j].x + level.platforms[j].width
        /\ level.enemies[i].x + level.enemies[i].width > level.platforms[j].x

\* C29: after updateEnemies a living jumper is within the oscillation
\* amplitude, 20 units, of the Y at which it was decoded, and at its x of
\* before the call
C29_JumperNearDecodedY ==
    last.op = "updateEnemies"
        => \A i \in 1..Len(level.enemies) :
              (level.enemies[i].alive /\ level.enemies[i].type = "jumper")
                  => /\ Abs(level.enemies[i].y - level.enemies[i].startY) <= Px(20)
                     /\ level.enemies[i].x = last.before.enemies[i].x

\* C30: the jumpPressed that getState returns is true exactly when the jump
\* signal is on at the call and was off at the previous call (off before the
\* first one); hence over calls during which the signal stays on, with
\* repeated keydown events or without, only the first returns true
C30_JumpPressedIsRisingEdge ==
    last.op = "getState"
        => /\ input.jumpPressed <=> (last.sampled /\ ~last.previous)
           /\ input.jump <=> last.sampled

\* C30 happens: getState was called while the signal had been on since the
\* previous call, and returned jump true and jumpPressed false
C30_SecondCallWhileHeld ==
    /\ last.op = "getState"
    /\ last.held
    /\ ~input.jumpPressed /\ input.jump

\* C31: after Player.update the horizontal velocity is within MOVE_SPEED of
\* zero and the vertical velocity is not under -MAX_FALL_SPEED; in an update
\* of a living player with neither direction held the horizontal velocity
\* keeps its sign and loses FRICTION times deltaTime, and is exactly 0 when
\* it had no more than that
C31_VelocityClamps ==
    /\ player.velocityX <= MOVE_SPEED * VelocityScale
    /\ player.velocityX >= 0 - MOVE_SPEED * VelocityScale
    /\ player.velocityY >= 0 - MAX_FALL_SPEED * VelocityScale
    /\ (/\ last.op = "update" /\ last.before.isAlive
        /\ ~last.input.left /\ ~last.input.right)
          => LET before == last.before.velocityX
                 loss == (FRICTION * last.dt * VelocityScale) \div TicksPerSecond
                 slower == IF Abs(before) <= loss THEN 0 ELSE Abs(before) - loss
             IN  /\ before >= 0 => player.velocityX = slower
                 /\ before <= 0 => player.velocityX = 0 - slower

\* C31 happens: friction stopped a player that had less velocity than a frame
\* of friction takes
C31_FrictionStopsAtZero ==
    /\ last.op = "update" /\ last.before.isAlive
    /\ ~last.input.left /\ ~last.input.right
    /\ last.before.velocityX > 0
    /\ last.before.velocityX < (FRICTION * last.dt * VelocityScale) \div TicksPerSecond
    /\ player.velocityX = 0

\* C32: the simulated frame in which the player falls under the world floor
\* (isAlive becomes false) takes exactly one life, whether the player is
\* invincible or not, and no frame takes a life from a player that is already
\* dead
C32_FallCostsOneLife ==
    [][(last'.op = "update" /\ last'.ran)
          => /\ (player.isAlive /\ ~player'.isAlive) => state'.lives = state.lives - 1
             /\ ~player.isAlive => state'.lives = state.lives]_vars

\* C32 for the player that is not invincible when the frame of the fall
\* begins
C32_FallCostsOneLifeUnshielded ==
    [][(last'.op = "update" /\ last'.ran)
          => /\ (player.isAlive /\ ~player'.isAlive /\ ~player.isInvincible)
                    => state'.lives = state.lives - 1
             /\ ~player.isAlive => state'.lives = state.lives]_vars

\* the player stands still on moving platform i of the level
StandsOn(p, i) ==
    /\ p.isAlive /\ p.isOnGround /\ p.velocityX = 0
    /\ ~p.currentPlatform.isNull /\ p.currentPlatform.id = i

\* C33: over a simulated frame that a player begins and ends standing still on
\* the same moving platform, the difference player.x - platform.x is kept
C33_CarriedWithPlatform ==
    [][\A i \in 1..Len(level.platforms) :
          (/\ last'.op = "update" /\ last'.ran
           /\ level.platforms[i].type = "moving"
           /\ StandsOn(player, i) /\ StandsOn(player', i))
             => player'.x - level'.platforms[i].x = player.x - level.platforms[i].x]_vars

\* C33 over the frames in which the platform moves with the velocity of its
\* previous frame and is not clamped
C33_CarriedBetweenTurns ==
    [][\A i \in 1..Len(level.platforms) :
          (/\ last'.op = "update" /\ last'.ran
           /\ level.platforms[i].type = "moving"
           /\ StandsOn(player, i) /\ StandsOn(player', i)
           /\ level.platforms[i].moveSpeed = level.platforms[i].currentVelocityX
           /\ level'.platforms[i].moveSpeed = level.platforms[i].moveSpeed)
             => player'.x - level'.platforms[i].x = player.x - level.platforms[i].x]_vars

\* the frame is simulated with the deltaTime of Elapsed and none of its
\* playerHit calls reaches Player.hit()
FrameWithoutHit ==
    /\ SimulatedFrame
    /\ \A k \in 1..Len(last'.hits) : last'.hits[k].playerAfter = last'.hits[k].playerBefore

\* the invincibility left after a frame of dt ticks
TimerAfter(p, dt) == IF p.invincibilityTimer <= dt THEN 0 ELSE p.invincibilityTimer - dt

\* the invincible player was alive when Player.hit() made it invincible: it
\* is alive, or an update has taken time from the two seconds (Player.update
\* runs the timers before it lets the player die and not at all for a dead
\* player)
HitWhileAlive(p) ==
    /\ p.isInvincible
    /\ p.isAlive \/ p.invincibilityTimer < INVINCIBILITY_DURATION * TicksPerSecond

\* C34: a player made invincible while alive has a positive rest of the two
\* seconds, every simulated frame takes its deltaTime from the rest, and the
\* player is invincible after the frame exactly if a rest is left
C34_InvincibilityRunsOut ==
    [][(FrameWithoutHit /\ HitWhileAlive(player))
          => /\ player.invincibilityTimer > 0
             /\ player.invincibilityTimer <= INVINCIBILITY_DURATION * TicksPerSecond
             /\ player'.invincibilityTimer = TimerAfter(player, FrameDeltaTime(MAX_DELTA_TICKS))
             /\ player'.isInvincible = (player'.invincibilityTimer > 0)]_vars

\* C34 for the player that is alive when the frame begins
C34_InvincibilityOfTheLivingRunsOut ==
    [][(FrameWithoutHit /\ player.isInvincible /\ player.isAlive)
          => /\ player.invincibilityTimer > 0
             /\ player.invincibilityTimer <= INVINCIBILITY_DURATION * TicksPerSecond
             /\ player'.invincibilityTimer = TimerAfter(player, FrameDeltaTime(MAX_DELTA_TICKS))
             /\ player'.isInvincible = (player'.invincibilityTimer > 0)]_vars

\* C35: the session is never both won and lost, the screen is 'won' exactly
\* when state.won is set and 'gameover' exactly when state.gameOver is set
C35_EndFlagsAgree ==
    /\ ~(state.won /\ state.gameOver)
    /\ (screenState = "won") <=> state.won
    /\ (screenState = "gameover") <=> state.gameOver

\* C36: lives stays between 0 and 3 and no step, a simulated frame least of
\* all, takes more than one life
C36_OneLifePerFrame ==
    [][/\ state'.lives >= 0 /\ state'.lives <= 3
       /\ state'.lives >= state.lives - 1]_vars

\* C37: a step that ran restart() leaves the player, the level, the session
\* state, the camera and the screen as startGame() makes them; the player is
\* the one of new Player(playerStart), with isOnGround false, currentPlatform
\* null and canJump true
C37_RestartEqualsStart ==
    [][restarts' > restarts
          => /\ Game' = startGame(Game', levelText)
             /\ player' = NewPlayer(level'.playerStart.x, level'.playerStart.y)]_vars

\* C37 for the fields of the player that respawn() assigns
C37_RestartResetsRespawnFields ==
    [][restarts' > restarts
          => /\ level' = parseLevel(levelText)
             /\ state' = NewGameState
             /\ screenState' = "playing"
             /\ LET fresh == NewPlayer(level'.playerStart.x, level'.playerStart.y)
                IN  player' = [fresh EXCEPT !.isOnGround = player.isOnGround,
                                            !.canJump = player.canJump,
                                            !.facingRight = player.facingRight,
                                            !.currentPlatform = player'.currentPlatform]]_vars

\* the session was restarted while the player stood on a platform: the
\* restarted player is in the air of its start cell and still on the ground
\* of a platform of the discarded level
C37_RestartedOnGround ==
    /\ restarts > 0 /\ last.op = "event" /\ screenState = "playing"
    /\ player.y = level.playerStart.y - player.height \div 2
    /\ player.isOnGround /\ ~player.currentPlatform.isNull

\* c is between a and b, the ends included
Between(a, c, b) == (a <= c /\ c <= b) \/ (b <= c /\ c <= a)

\* C38: after every simulated frame cameraY is between its value before the
\* frame and the new cameraTargetY, and from every state the session reaches
\* the camera step of a frame of any deltaTime from 0 to 0.1 s leaves cameraY
\* between its value and the target of that step
C38_CameraNeverOvershoots ==
    [][/\ (last'.op = "update" /\ last'.ran) => Between(cameraY, cameraY', cameraTargetY')
       /\ \A now \in {[player |-> player', displayHeight |-> displayHeight',
                         cameraTargetY |-> cameraTargetY', cameraY |-> cameraY']} :
             \A dt \in 0..MAX_DELTA_TICKS :
                 \A g \in {CameraStage(now, dt)} :
                     /\ Between(now.cameraY, g.cameraY, g.cameraTargetY)
                     /\ Abs(g.cameraTargetY - g.cameraY)
                            <= Abs(g.cameraTargetY - now.cameraY)]_vars

\* a simulated frame has left the camera on its way up from where startGame
\* put it to a target it has not reached
C38_CameraOnTheWay ==
    /\ last.op = "update" /\ last.ran /\ screenState = "playing"
    /\ cameraY > getCenterY(NewPlayer(level.playerStart.x, level.playerStart.y))
                     - CameraOffset(displayHeight)
    /\ cameraY < cameraTargetY

\* the player is over the platform: their horizontal extents overlap
OverPlatform(p, platform) ==
    p.x < platform.x + platform.width /\ p.x + p.width > platform.x

\* the player rests on the static, non-bouncy platform
RestsOn(p, platform) ==
    /\ platform.type \notin {"bouncy", "moving"}
    /\ p.isAlive /\ p.isOnGround /\ p.velocityY = 0
    /\ p.y = platform.y + platform.height
    /\ OverPlatform(p, platform)

\* the player stands on the platform, which is its currentPlatform
GroundedOn(p, platform) ==
    /\ p.isOnGround
    /\ p.y = platform.y + platform.height
    /\ p.currentPlatform = PlatformRef(platform)

C40_NeverFallsThrough ==
    [][(last'.op = "update" /\ last'.ran /\ player.isAlive)
          => \A i \in 1..Len(level.platforms) :
                LET platform == level.platforms[i]
                IN  (/\ player.y >= platform.y + platform.height
                     /\ OverPlatform(player, platform) /\ OverPlatform(player', platform))
                       => player'.y >= platform.y + platform.height]_vars

\* C40 for the frames that leave the bottom of the player no more than 10 px
\* under the bottom of the platform
C40_LandsInsideTheBand ==
    [][(last'.op = "update" /\ last'.ran /\ player.isAlive)
          => \A i \in 1..Len(level.platforms) :
                LET platform == level.platforms[i]
                IN  (/\ player.y >= platform.y + platform.height
                     /\ OverPlatform(player, platform) /\ OverPlatform(player', platform)
                     /\ player'.y >= platform.y - Px(10))
                       => player'.y >= platform.y + platform.height]_vars

=============================================================================
